---- MODULE Spec2Model ----
(***************************************************************************)
(* app2nix: the library dependency resolution of get_nix_shell             *)
(* (src/src/readfile_nix.rs) and of main (src/src/main.rs), and the        *)
(* knowledge base loader (src/src/configuration.rs).                       *)
(*                                                                         *)
(* A Rust String is modelled as a sequence of one-character strings, so    *)
(* that trim, split, lines, starts_with and the byte-wise ordering used by *)
(* Vec::sort are computed, not assumed.                                    *)
(***************************************************************************)
EXTENDS Integers, Sequences, FiniteSets, TLC

(* ------------------------------ bounds -------------------------------- *)
\* the largest number of regular files in the payload of the archive
MaxFiles == 2

(* --------------------------- std: Option, Result ---------------------- *)
None == [some |-> FALSE]
Some(x) == [some |-> TRUE, val |-> x]
Ok(v) == [ok |-> TRUE, val |-> v]
Err(e) == [ok |-> FALSE, err |-> e]

(* --------------------------- std: str and Vec ------------------------- *)
\* the printable ASCII characters, in the order of their codes 32..126 (the
\* quotation mark, the backslash and the backtick, which no name of the model holds, are
\* spelled out to keep the positions)
Printable ==
  << " ", "!", "QUOTE", "#", "$", "%", "&", "'", "(", ")", "*", "+", ",", "-", ".", "/",
     "0", "1", "2", "3", "4", "5", "6", "7", "8", "9", ":", ";", "<", "=", ">", "?",
     "@", "A", "B", "C", "D", "E", "F", "G", "H", "I", "J", "K", "L", "M", "N", "O",
     "P", "Q", "R", "S", "T", "U", "V", "W", "X", "Y", "Z", "[", "BACKSLASH", "]", "^", "_",
     "BACKTICK", "a", "b", "c", "d", "e", "f", "g", "h", "i", "j", "k", "l", "m", "n", "o",
     "p", "q", "r", "s", "t", "u", "v", "w", "x", "y", "z", "{", "|", "}", "~" >>

\* the byte of a character
Code(c) ==
  IF c = "\t" THEN 9
  ELSE IF c = "\n" THEN 10
  ELSE IF c = "\r" THEN 13
  ELSE 31 + (CHOOSE i \in 1..Len(Printable) : Printable[i] = c)

\* <str as Ord>::lt : lexicographic comparison of the bytes
StrLess(a, b) ==
  LET n == IF Len(a) < Len(b) THEN Len(a) ELSE Len(b)
      d == {i \in 1..n : a[i] # b[i]}
  IN  IF d = {} THEN Len(a) < Len(b)
      ELSE LET k == CHOOSE i \in d : \A j \in d : i <= j
           IN  Code(a[k]) < Code(b[k])

\* a variant of sort: the vector is left in the order it was built in
sort_skipped(v) == v

\* Vec<String>::sort
sort(v) == SortSeq(v, StrLess)

\* char::is_whitespace, for the characters of the model
is_whitespace(c) == c \in {" ", "\t", "\n", "\r"}

RECURSIVE trim_start(_)
trim_start(s) ==
  IF s # <<>> /\ is_whitespace(Head(s)) THEN trim_start(Tail(s)) ELSE s

RECURSIVE trim_end(_)
trim_end(s) ==
  IF s # <<>> /\ is_whitespace(s[Len(s)])
  THEN trim_end(SubSeq(s, 1, Len(s) - 1))
  ELSE s

\* str::trim
trim(s) == trim_end(trim_start(s))

\* str::split(c): the pieces between the occurrences of c, at least one piece
RECURSIVE split(_, _)
split(s, c) ==
  IF \A i \in 1..Len(s) : s[i] # c THEN <<s>>
  ELSE LET k == CHOOSE i \in 1..Len(s) : s[i] = c /\ \A j \in 1..(i - 1) : s[j] # c
       IN  <<SubSeq(s, 1, k - 1)>> \o split(SubSeq(s, k + 1, Len(s)), c)

\* str::lines: split at "\n"; a line that ended in "\n" also loses a "\r"
\* before it; the empty piece after a final "\n" is no line
lines(s) ==
  LET p == split(s, "\n")
      strip_cr(l) == IF l # <<>> /\ l[Len(l)] = "\r" THEN SubSeq(l, 1, Len(l) - 1) ELSE l
      n == Len(p)
  IN  [i \in 1..(IF p[n] = <<>> THEN n - 1 ELSE n) |->
         IF i < n THEN strip_cr(p[i]) ELSE p[i]]

\* str::starts_with
starts_with(s, p) == Len(p) <= Len(s) /\ SubSeq(s, 1, Len(p)) = p

\* str::contains(char)
contains_char(s, c) == \E i \in 1..Len(s) : s[i] = c

\* str::contains(&str)
contains_str(s, p) == \E i \in 1..(Len(s) - Len(p) + 1) : SubSeq(s, i, i + Len(p) - 1) = p

\* slice::last of a non-empty vector
last(v) == v[Len(v)]

\* the elements of a vector
Elems(v) == {v[i] : i \in 1..Len(v)}

\* the orders in which the elements of a set can be iterated (HashSet::into_iter)
Orders(S) ==
  {v \in [1..Cardinality(S) -> S] : \A i, j \in 1..Cardinality(S) : i # j => v[i] # v[j]}

\* two of the orders an iteration can give, one the reverse of the other, for
\* the sets too large to take every order of
RECURSIVE Enumerate(_)
Enumerate(S) ==
  IF S = {} THEN <<>>
  ELSE LET x == CHOOSE y \in S : TRUE IN <<x>> \o Enumerate(S \ {x})
TwoOrders(S) ==
  LET v == Enumerate(S)
  IN  {v, [i \in 1..Len(v) |-> v[Len(v) + 1 - i]]}

\* HashMap::contains_key and HashMap::get, a map being a set of <<key, value>>
contains_key(m, k) == \E e \in m : e[1] = k
get(m, k) == IF contains_key(m, k) THEN Some((CHOOSE e \in m : e[1] = k)[2]) ELSE None

SYSTEM_LIBS ==
  {
    <<"l","i","b","c",".","s","o",".","6">>,  \* libc.so.6
    <<"l","i","b","m",".","s","o",".","6">>,  \* libm.so.6
    <<"l","i","b","d","l",".","s","o",".","2">>,  \* libdl.so.2
    <<"l","i","b","p","t","h","r","e","a","d",".","s","o",".","0">>,  \* libpthread.so.0
    <<"l","i","b","r","t",".","s","o",".","1">>,  \* librt.so.1
    <<"l","i","b","u","t","i","l",".","s","o",".","1">>,  \* libutil.so.1
    <<"l","i","b","r","e","s","o","l","v",".","s","o",".","2">>,  \* libresolv.so.2
    <<"l","d","-","l","i","n","u","x","-","x","8","6","-","6","4",".","s","o",".","2">>,  \* ld-linux-x86-64.so.2
    <<"l","i","b","g","c","c","_","s",".","s","o",".","1">>,  \* libgcc_s.so.1
    <<"l","i","b","s","t","d","c","+","+",".","s","o",".","6">>  \* libstdc++.so.6
  }

LIB_TO_PKG_MAP ==
  {
    <<<<"l","i","b","g","l","i","b","-","2",".","0",".","s","o",".","0">>,
      <<"g","l","i","b">>>>,  \* libglib-2.0.so.0 -> glib
    <<<<"l","i","b","g","o","b","j","e","c","t","-","2",".","0",".","s","o",".","0">>,
      <<"g","l","i","b">>>>,  \* libgobject-2.0.so.0 -> glib
    <<<<"l","i","b","g","i","o","-","2",".","0",".","s","o",".","0">>,
      <<"g","l","i","b">>>>,  \* libgio-2.0.so.0 -> glib
    <<<<"l","i","b","g","t","k","-","3",".","s","o",".","0">>,
      <<"g","t","k","3">>>>,  \* libgtk-3.so.0 -> gtk3
    <<<<"l","i","b","g","d","k","-","3",".","s","o",".","0">>,
      <<"g","t","k","3">>>>,  \* libgdk-3.so.0 -> gtk3
    <<<<"l","i","b","p","a","n","g","o","-","1",".","0",".","s","o",".","0">>,
      <<"p","a","n","g","o">>>>,  \* libpango-1.0.so.0 -> pango
    <<<<"l","i","b","p","a","n","g","o","c","a","i","r","o","-","1",".","0",".","s","o",".","0">>,
      <<"p","a","n","g","o">>>>,  \* libpangocairo-1.0.so.0 -> pango
    <<<<"l","i","b","c","a","i","r","o",".","s","o",".","2">>,
      <<"c","a","i","r","o">>>>,  \* libcairo.so.2 -> cairo
    <<<<"l","i","b","c","a","i","r","o","-","g","o","b","j","e","c","t",".","s","o",".","2">>,
      <<"c","a","i","r","o">>>>,  \* libcairo-gobject.so.2 -> cairo
    <<<<"l","i","b","g","d","k","_","p","i","x","b","u","f","-","2",".","0",".","s","o",".","0">>,
      <<"g","d","k","-","p","i","x","b","u","f">>>>,  \* libgdk_pixbuf-2.0.so.0 -> gdk-pixbuf
    <<<<"l","i","b","a","t","k","-","1",".","0",".","s","o",".","0">>,
      <<"a","t","-","s","p","i","2","-","a","t","k">>>>,  \* libatk-1.0.so.0 -> at-spi2-atk
    <<<<"l","i","b","a","t","k","-","b","r","i","d","g","e","-","2",".","0",".","s","o",".","0">>,
      <<"a","t","-","s","p","i","2","-","a","t","k">>>>,  \* libatk-bridge-2.0.so.0 -> at-spi2-atk
    <<<<"l","i","b","a","t","s","p","i",".","s","o",".","0">>,
      <<"a","t","-","s","p","i","2","-","c","o","r","e">>>>,  \* libatspi.so.0 -> at-spi2-core
    <<<<"l","i","b","d","b","u","s","-","1",".","s","o",".","3">>,
      <<"d","b","u","s">>>>,  \* libdbus-1.so.3 -> dbus
    <<<<"l","i","b","X","1","1",".","s","o",".","6">>,
      <<"x","o","r","g",".","l","i","b","X","1","1">>>>,  \* libX11.so.6 -> xorg.libX11
    <<<<"l","i","b","x","c","b",".","s","o",".","1">>,
      <<"x","o","r","g",".","l","i","b","x","c","b">>>>,  \* libxcb.so.1 -> xorg.libxcb
    <<<<"l","i","b","X","c","o","m","p","o","s","i","t","e",".","s","o",".","1">>,
      <<"x","o","r","g",".","l","i","b","X","c","o","m","p","o","s","i","t","e">>>>,  \* libXcomposite.so.1 -> xorg.libXcomposite
    <<<<"l","i","b","X","d","a","m","a","g","e",".","s","o",".","1">>,
      <<"x","o","r","g",".","l","i","b","X","d","a","m","a","g","e">>>>,  \* libXdamage.so.1 -> xorg.libXdamage
    <<<<"l","i","b","X","e","x","t",".","s","o",".","6">>,
      <<"x","o","r","g",".","l","i","b","X","e","x","t">>>>,  \* libXext.so.6 -> xorg.libXext
    <<<<"l","i","b","X","f","i","x","e","s",".","s","o",".","3">>,
      <<"x","o","r","g",".","l","i","b","X","f","i","x","e","s">>>>,  \* libXfixes.so.3 -> xorg.libXfixes
    <<<<"l","i","b","X","r","a","n","d","r",".","s","o",".","2">>,
      <<"x","o","r","g",".","l","i","b","X","r","a","n","d","r">>>>,  \* libXrandr.so.2 -> xorg.libXrandr
    <<<<"l","i","b","X","r","e","n","d","e","r",".","s","o",".","1">>,
      <<"x","o","r","g",".","l","i","b","X","r","e","n","d","e","r">>>>,  \* libXrender.so.1 -> xorg.libXrender
    <<<<"l","i","b","x","s","h","m","f","e","n","c","e",".","s","o",".","1">>,
      <<"l","i","b","x","s","h","m","f","e","n","c","e">>>>,  \* libxshmfence.so.1 -> libxshmfence
    <<<<"l","i","b","d","r","m",".","s","o",".","2">>,
      <<"l","i","b","d","r","m">>>>,  \* libdrm.so.2 -> libdrm
    <<<<"l","i","b","g","b","m",".","s","o",".","1">>,
      <<"m","e","s","a">>>>,  \* libgbm.so.1 -> mesa
    <<<<"l","i","b","G","L",".","s","o",".","1">>,
      <<"l","i","b","g","l","v","n","d">>>>,  \* libGL.so.1 -> libglvnd
    <<<<"l","i","b","E","G","L",".","s","o",".","1">>,
      <<"l","i","b","g","l","v","n","d">>>>,  \* libEGL.so.1 -> libglvnd
    <<<<"l","i","b","G","L","E","S","v","2",".","s","o",".","2">>,
      <<"l","i","b","g","l","v","n","d">>>>,  \* libGLESv2.so.2 -> libglvnd
    <<<<"l","i","b","v","u","l","k","a","n",".","s","o",".","1">>,
      <<"v","u","l","k","a","n","-","l","o","a","d","e","r">>>>,  \* libvulkan.so.1 -> vulkan-loader
    <<<<"l","i","b","n","s","p","r","4",".","s","o">>,
      <<"n","s","p","r">>>>,  \* libnspr4.so -> nspr
    <<<<"l","i","b","n","s","s","3",".","s","o">>,
      <<"n","s","s">>>>,  \* libnss3.so -> nss
    <<<<"l","i","b","n","s","s","u","t","i","l","3",".","s","o">>,
      <<"n","s","s">>>>,  \* libnssutil3.so -> nss
    <<<<"l","i","b","s","m","i","m","e","3",".","s","o">>,
      <<"n","s","s">>>>,  \* libsmime3.so -> nss
    <<<<"l","i","b","s","s","l",".","s","o",".","3">>,
      <<"o","p","e","n","s","s","l">>>>,  \* libssl.so.3 -> openssl
    <<<<"l","i","b","c","r","y","p","t","o",".","s","o",".","3">>,
      <<"o","p","e","n","s","s","l">>>>,  \* libcrypto.so.3 -> openssl
    <<<<"l","i","b","s","e","c","r","e","t","-","1",".","s","o",".","0">>,
      <<"l","i","b","s","e","c","r","e","t">>>>,  \* libsecret-1.so.0 -> libsecret
    <<<<"l","i","b","z",".","s","o",".","1">>,
      <<"z","l","i","b">>>>,  \* libz.so.1 -> zlib
    <<<<"l","i","b","e","x","p","a","t",".","s","o",".","1">>,
      <<"e","x","p","a","t">>>>,  \* libexpat.so.1 -> expat
    <<<<"l","i","b","u","u","i","d",".","s","o",".","1">>,
      <<"l","i","b","u","u","i","d">>>>,  \* libuuid.so.1 -> libuuid
    <<<<"l","i","b","c","u","p","s",".","s","o",".","2">>,
      <<"c","u","p","s">>>>,  \* libcups.so.2 -> cups
    <<<<"l","i","b","a","s","o","u","n","d",".","s","o",".","2">>,
      <<"a","l","s","a","-","l","i","b">>>>,  \* libasound.so.2 -> alsa-lib
    <<<<"l","i","b","f","r","e","e","t","y","p","e",".","s","o",".","6">>,
      <<"f","r","e","e","t","y","p","e">>>>,  \* libfreetype.so.6 -> freetype
    <<<<"l","i","b","f","o","n","t","c","o","n","f","i","g",".","s","o",".","1">>,
      <<"f","o","n","t","c","o","n","f","i","g">>>>,  \* libfontconfig.so.1 -> fontconfig
    <<<<"l","i","b","x","k","b","c","o","m","m","o","n",".","s","o",".","0">>,
      <<"l","i","b","x","k","b","c","o","m","m","o","n">>>>,  \* libxkbcommon.so.0 -> libxkbcommon
    <<<<"l","i","b","f","f","m","p","e","g",".","s","o">>,
      <<"f","f","m","p","e","g">>>>  \* libffmpeg.so -> ffmpeg
  }

COMMON_LIBS ==
  {
    <<<<"l","i","b","g","t","k","-","3",".","s","o",".","0">>,
      <<"g","t","k","3">>>>,  \* libgtk-3.so.0 -> gtk3
    <<<<"l","i","b","g","d","k","-","3",".","s","o",".","0">>,
      <<"g","t","k","3">>>>,  \* libgdk-3.so.0 -> gtk3
    <<<<"l","i","b","g","t","k","-","x","1","1","-","2",".","0",".","s","o",".","0">>,
      <<"g","t","k","2">>>>,  \* libgtk-x11-2.0.so.0 -> gtk2
    <<<<"l","i","b","g","l","i","b","-","2",".","0",".","s","o",".","0">>,
      <<"g","l","i","b">>>>,  \* libglib-2.0.so.0 -> glib
    <<<<"l","i","b","g","o","b","j","e","c","t","-","2",".","0",".","s","o",".","0">>,
      <<"g","l","i","b">>>>,  \* libgobject-2.0.so.0 -> glib
    <<<<"l","i","b","g","i","o","-","2",".","0",".","s","o",".","0">>,
      <<"g","l","i","b">>>>,  \* libgio-2.0.so.0 -> glib
    <<<<"l","i","b","p","a","n","g","o","-","1",".","0",".","s","o",".","0">>,
      <<"p","a","n","g","o">>>>,  \* libpango-1.0.so.0 -> pango
    <<<<"l","i","b","p","a","n","g","o","c","a","i","r","o","-","1",".","0",".","s","o",".","0">>,
      <<"p","a","n","g","o">>>>,  \* libpangocairo-1.0.so.0 -> pango
    <<<<"l","i","b","p","a","n","g","o","f","t","2","-","1",".","0",".","s","o",".","0">>,
      <<"p","a","n","g","o">>>>,  \* libpangoft2-1.0.so.0 -> pango
    <<<<"l","i","b","c","a","i","r","o",".","s","o",".","2">>,
      <<"c","a","i","r","o">>>>,  \* libcairo.so.2 -> cairo
    <<<<"l","i","b","c","a","i","r","o","-","g","o","b","j","e","c","t",".","s","o",".","2">>,
      <<"c","a","i","r","o">>>>,  \* libcairo-gobject.so.2 -> cairo
    <<<<"l","i","b","g","d","k","_","p","i","x","b","u","f","-","2",".","0",".","s","o",".","0">>,
      <<"g","d","k","-","p","i","x","b","u","f">>>>,  \* libgdk_pixbuf-2.0.so.0 -> gdk-pixbuf
    <<<<"l","i","b","a","t","k","-","1",".","0",".","s","o",".","0">>,
      <<"a","t","-","s","p","i","2","-","a","t","k">>>>,  \* libatk-1.0.so.0 -> at-spi2-atk
    <<<<"l","i","b","a","t","k","-","b","r","i","d","g","e","-","2",".","0",".","s","o",".","0">>,
      <<"a","t","-","s","p","i","2","-","a","t","k">>>>,  \* libatk-bridge-2.0.so.0 -> at-spi2-atk
    <<<<"l","i","b","a","t","s","p","i",".","s","o",".","0">>,
      <<"a","t","-","s","p","i","2","-","a","t","k">>>>,  \* libatspi.so.0 -> at-spi2-atk
    <<<<"l","i","b","Q","t","5","C","o","r","e",".","s","o",".","5">>,
      <<"q","t","5",".","q","t","b","a","s","e">>>>,  \* libQt5Core.so.5 -> qt5.qtbase
    <<<<"l","i","b","Q","t","5","G","u","i",".","s","o",".","5">>,
      <<"q","t","5",".","q","t","b","a","s","e">>>>,  \* libQt5Gui.so.5 -> qt5.qtbase
    <<<<"l","i","b","Q","t","5","W","i","d","g","e","t","s",".","s","o",".","5">>,
      <<"q","t","5",".","q","t","b","a","s","e">>>>,  \* libQt5Widgets.so.5 -> qt5.qtbase
    <<<<"l","i","b","Q","t","5","X","1","1","E","x","t","r","a","s",".","s","o",".","5">>,
      <<"q","t","5",".","q","t","x","1","1","e","x","t","r","a","s">>>>,  \* libQt5X11Extras.so.5 -> qt5.qtx11extras
    <<<<"l","i","b","Q","t","6","C","o","r","e",".","s","o",".","6">>,
      <<"q","t","6",".","q","t","b","a","s","e">>>>,  \* libQt6Core.so.6 -> qt6.qtbase
    <<<<"l","i","b","Q","t","6","G","u","i",".","s","o",".","6">>,
      <<"q","t","6",".","q","t","b","a","s","e">>>>,  \* libQt6Gui.so.6 -> qt6.qtbase
    <<<<"l","i","b","Q","t","6","W","i","d","g","e","t","s",".","s","o",".","6">>,
      <<"q","t","6",".","q","t","b","a","s","e">>>>,  \* libQt6Widgets.so.6 -> qt6.qtbase
    <<<<"l","i","b","X","1","1",".","s","o",".","6">>,
      <<"x","o","r","g",".","l","i","b","X","1","1">>>>,  \* libX11.so.6 -> xorg.libX11
    <<<<"l","i","b","X","1","1","-","x","c","b",".","s","o",".","1">>,
      <<"x","o","r","g",".","l","i","b","X","1","1">>>>,  \* libX11-xcb.so.1 -> xorg.libX11
    <<<<"l","i","b","X","c","o","m","p","o","s","i","t","e",".","s","o",".","1">>,
      <<"x","o","r","g",".","l","i","b","X","c","o","m","p","o","s","i","t","e">>>>,  \* libXcomposite.so.1 -> xorg.libXcomposite
    <<<<"l","i","b","X","d","a","m","a","g","e",".","s","o",".","1">>,
      <<"x","o","r","g",".","l","i","b","X","d","a","m","a","g","e">>>>,  \* libXdamage.so.1 -> xorg.libXdamage
    <<<<"l","i","b","X","e","x","t",".","s","o",".","6">>,
      <<"x","o","r","g",".","l","i","b","X","e","x","t">>>>,  \* libXext.so.6 -> xorg.libXext
    <<<<"l","i","b","X","f","i","x","e","s",".","s","o",".","3">>,
      <<"x","o","r","g",".","l","i","b","X","f","i","x","e","s">>>>,  \* libXfixes.so.3 -> xorg.libXfixes
    <<<<"l","i","b","X","r","a","n","d","r",".","s","o",".","2">>,
      <<"x","o","r","g",".","l","i","b","X","r","a","n","d","r">>>>,  \* libXrandr.so.2 -> xorg.libXrandr
    <<<<"l","i","b","X","r","e","n","d","e","r",".","s","o",".","1">>,
      <<"x","o","r","g",".","l","i","b","X","r","e","n","d","e","r">>>>,  \* libXrender.so.1 -> xorg.libXrender
    <<<<"l","i","b","x","c","b",".","s","o",".","1">>,
      <<"x","o","r","g",".","l","i","b","x","c","b">>>>,  \* libxcb.so.1 -> xorg.libxcb
    <<<<"l","i","b","x","c","b","-","d","r","i","3",".","s","o",".","0">>,
      <<"x","o","r","g",".","l","i","b","x","c","b">>>>,  \* libxcb-dri3.so.0 -> xorg.libxcb
    <<<<"l","i","b","x","k","b","c","o","m","m","o","n",".","s","o",".","0">>,
      <<"l","i","b","x","k","b","c","o","m","m","o","n">>>>,  \* libxkbcommon.so.0 -> libxkbcommon
    <<<<"l","i","b","x","s","h","m","f","e","n","c","e",".","s","o",".","1">>,
      <<"l","i","b","x","s","h","m","f","e","n","c","e">>>>,  \* libxshmfence.so.1 -> libxshmfence
    <<<<"l","i","b","g","b","m",".","s","o",".","1">>,
      <<"m","e","s","a">>>>,  \* libgbm.so.1 -> mesa
    <<<<"l","i","b","d","r","m",".","s","o",".","2">>,
      <<"l","i","b","d","r","m">>>>,  \* libdrm.so.2 -> libdrm
    <<<<"l","i","b","G","L",".","s","o",".","1">>,
      <<"l","i","b","g","l","v","n","d">>>>,  \* libGL.so.1 -> libglvnd
    <<<<"l","i","b","E","G","L",".","s","o",".","1">>,
      <<"l","i","b","g","l","v","n","d">>>>,  \* libEGL.so.1 -> libglvnd
    <<<<"l","i","b","G","L","E","S","v","2",".","s","o",".","2">>,
      <<"l","i","b","g","l","v","n","d">>>>,  \* libGLESv2.so.2 -> libglvnd
    <<<<"l","i","b","v","u","l","k","a","n",".","s","o",".","1">>,
      <<"v","u","l","k","a","n","-","l","o","a","d","e","r">>>>,  \* libvulkan.so.1 -> vulkan-loader
    <<<<"l","i","b","a","s","o","u","n","d",".","s","o",".","2">>,
      <<"a","l","s","a","-","l","i","b">>>>,  \* libasound.so.2 -> alsa-lib
    <<<<"l","i","b","p","u","l","s","e",".","s","o",".","0">>,
      <<"l","i","b","p","u","l","s","e","a","u","d","i","o">>>>,  \* libpulse.so.0 -> libpulseaudio
    <<<<"l","i","b","n","s","s","3",".","s","o">>,
      <<"n","s","s">>>>,  \* libnss3.so -> nss
    <<<<"l","i","b","n","s","s","u","t","i","l","3",".","s","o">>,
      <<"n","s","s">>>>,  \* libnssutil3.so -> nss
    <<<<"l","i","b","s","m","i","m","e","3",".","s","o">>,
      <<"n","s","s">>>>,  \* libsmime3.so -> nss
    <<<<"l","i","b","n","s","p","r","4",".","s","o">>,
      <<"n","s","p","r">>>>,  \* libnspr4.so -> nspr
    <<<<"l","i","b","c","u","p","s",".","s","o",".","2">>,
      <<"c","u","p","s">>>>,  \* libcups.so.2 -> cups
    <<<<"l","i","b","d","b","u","s","-","1",".","s","o",".","3">>,
      <<"d","b","u","s">>>>,  \* libdbus-1.so.3 -> dbus
    <<<<"l","i","b","e","x","p","a","t",".","s","o",".","1">>,
      <<"e","x","p","a","t">>>>,  \* libexpat.so.1 -> expat
    <<<<"l","i","b","u","d","e","v",".","s","o",".","1">>,
      <<"s","y","s","t","e","m","d">>>>,  \* libudev.so.1 -> systemd
    <<<<"l","i","b","z",".","s","o",".","1">>,
      <<"z","l","i","b">>>>,  \* libz.so.1 -> zlib
    <<<<"l","i","b","c",".","s","o",".","6">>,
      <<"g","l","i","b","c">>>>,  \* libc.so.6 -> glibc
    <<<<"l","i","b","m",".","s","o",".","6">>,
      <<"g","l","i","b","c">>>>,  \* libm.so.6 -> glibc
    <<<<"l","i","b","p","t","h","r","e","a","d",".","s","o",".","0">>,
      <<"g","l","i","b","c">>>>,  \* libpthread.so.0 -> glibc
    <<<<"l","i","b","d","l",".","s","o",".","2">>,
      <<"g","l","i","b","c">>>>,  \* libdl.so.2 -> glibc
    <<<<"l","i","b","g","c","c","_","s",".","s","o",".","1">>,
      <<"l","i","b","g","c","c">>>>,  \* libgcc_s.so.1 -> libgcc
    <<<<"l","i","b","s","t","d","c","+","+",".","s","o",".","6">>,
      <<"l","i","b","g","c","c">>>>  \* libstdc++.so.6 -> libgcc
  }

(* ----------------------- external collaborators ------------------------ *)
\* what Command::output() / status() of a subprocess can give: the program
\* could not be started, or it ran to an exit status and a standard output
NotSpawned == [spawned |-> FALSE]
Ran(ok, out) == [spawned |-> TRUE, success |-> ok, stdout |-> out]

\* a regular file of the archive: its file name and what
\* `patchelf --print-needed` gives for it
File(n, o) == [name |-> n, needed |-> o]

\* the members `ar x` unpacks from a .deb; none of them is an ELF file
NotElf == Ran(FALSE, <<>>)
DebMembers ==
  { { File(<<"d","e","b","i","a","n","-","b","i","n","a","r","y">>, NotElf), File(<<"c","o","n","t","r","o","l",".","t","a","r",".","g","z">>, NotElf),
      File(<<"d","a","t","a",".","t","a","r",".","x","z">>, NotElf) },
    { File(<<"d","e","b","i","a","n","-","b","i","n","a","r","y">>, NotElf), File(<<"c","o","n","t","r","o","l",".","t","a","r",".","g","z">>, NotElf) } }

\* the payloads of data.tar.*: at most MaxFiles regular files, their file
\* names and introspection outputs drawn from these
FileNames == { <<"a","p","p">>, <<"l","i","b","f","o","o",".","s","o",".","1">>, <<"l","i","b","f","f","m","p","e","g",".","s","o">> }
NeededOutputs ==
  { NotSpawned,
    Ran(FALSE, <<"l","i","b","f","o","o",".","s","o",".","1","\n">>),
    Ran(TRUE, <<"l","i","b","c",".","s","o",".","6","\n","l","i","b","z",".","s","o",".","1","\n">>),
    Ran(TRUE, <<" ","l","i","b","f","f","m","p","e","g",".","s","o"," ","\n","\n","l","i","b","f","o","o",".","s","o",".","1","\n">>),
    Ran(TRUE, <<"f","o","o","\n","l","i","b","z",".","s","o",".","1","\n">>) }
Payloads ==
  {t \in SUBSET [name : FileNames, needed : NeededOutputs] : Cardinality(t) <= MaxFiles}

\* what one nix-locate invocation can give
LocateOutputs ==
  { NotSpawned,
    Ran(TRUE, <<>>),
    Ran(TRUE, <<"n","i","x","p","k","g","s",".","f","o","o","\n">>),
    Ran(TRUE, <<"(","w","r","a","p","p","e","d",".","o","u","t",")","\n","z","l","i","b",".","o","u","t","\n">>),
    Ran(FALSE, <<"b","a","r","\n">>) }

\* what `dpkg --info` (or its nix-shell fallback) can give
DpkgOutputs ==
  { NotSpawned,
    Ran(FALSE, <<>>),
    Ran(TRUE, <<"P","a","c","k","a","g","e",":"," ","d","e","m","o","\n","V","e","r","s","i","o","n",":"," ","1",".","2","\n","A","r","c","h","i","t","e","c","t","u","r","e",":"," ","a","m","d","6","4","\n","D","e","s","c","r","i","p","t","i","o","n",":"," ","a"," ","d","e","m","o","\n">>) }

\* the file names the command line can give
Filenames == { <<>>, <<"p","a","c","k","a","g","e",".","d","e","b">> }

(* ------------------------------ state ---------------------------------- *)
VARIABLES
  pc,                \* where the run is
  filename,          \* get_nix_shell's argument
  skip_deps,         \* get_nix_shell's flag
  deb,               \* the members of the archive
  which_runs,        \* whether `which` itself can be started
  package_info,      \* get_nix_shell's PackageInfo
  result,            \* what get_nix_shell returned (None while it runs)
  scan_result,       \* what scan_binary_and_resolve returned (None before)
  tmp_on_disk,       \* whether the tempdir() directory exists
  tmp_files,         \* the regular files below the temporary directory
  data_tar,          \* the data.tar.* member read_dir found
  bundled_files,     \* names of the files below the temporary directory
  visited,           \* the files the introspection loop has handled
  needed_libs,       \* the libraries to resolve
  resolve_rest,      \* the part of needed_libs the resolve loop has yet to visit
  resolved_packages, \* the package names found
  missing_libs,      \* the libraries no package was found for, in push order
  resolve_log,       \* for each library the loop has visited: the package
                     \* resolve_lib_via_locate gave and the nix-locate runs it made
  \* main (src/src/main.rs)
  main_pc,           \* where main is
  pkg_type,          \* the PackageType detect_file_type found
  disk,              \* the files and directories main leaves in the working directory
  extract_created,   \* whether this run has made the extraction directory
  extracted,         \* the regular files below the extraction directory
  internal_libs,     \* names of the entries of the tree that contain ".so"
  all_needed,        \* the lines the introspection of the tree printed
  main_missing_libs, \* the part of all_needed minus internal_libs yet to resolve
  pkg_map,           \* package name -> the library (or marker) it was entered for
  sorted_pkgs,       \* the package list given to generate_nix_content
  exit,              \* how the process ended (None while it runs)
  \* the knowledge base (src/src/configuration.rs)
  files,             \* what is at each of the paths get_config_path tries
  LIBRARIES_CONFIG,  \* the OnceLock: None until initialised, then Some(config)
  load_log,          \* what load_libraries_config found at each of its runs
  calls,             \* the number of is_system_lib and get_pkg_for_lib calls made
  answer,            \* the last of these calls and what it returned
  decision,          \* the last decision of the resolver on one library
  \* a second call of get_nix_shell in the same process
  first_run,         \* what the first call scanned, was answered and returned
  control            \* the dpkg output a read of the control data alone was given

vars ==
  << pc, filename, skip_deps, deb, which_runs, package_info, result,
     scan_result, tmp_on_disk, tmp_files, data_tar, bundled_files, visited,
     needed_libs, resolve_rest, resolved_packages, missing_libs, resolve_log,
     main_pc, pkg_type, disk, extract_created, extracted, internal_libs,
     all_needed, main_missing_libs, pkg_map, sorted_pkgs, exit,
     files, LIBRARIES_CONFIG, load_log, calls, answer, decision, first_run, control >>

\* the variables of the knowledge base (and the record of a first call), of
\* main, and those of get_nix_shell
config_vars == << files, LIBRARIES_CONFIG, load_log, calls, answer, decision, first_run, control >>
\* the variables of main, and those of get_nix_shell
main_vars ==
  << main_pc, pkg_type, disk, extract_created, extracted, internal_libs,
     all_needed, main_missing_libs, pkg_map, sorted_pkgs, exit >>
get_nix_shell_vars ==
  << pc, filename, skip_deps, deb, which_runs, package_info, result,
     scan_result, tmp_on_disk, tmp_files, data_tar, bundled_files, visited,
     needed_libs, resolve_rest, resolved_packages, missing_libs, resolve_log >>

world == << filename, skip_deps, deb, which_runs >>
scan_vars ==
  << tmp_files, data_tar, bundled_files, visited, needed_libs, resolve_rest,
     resolved_packages, missing_libs, resolve_log >>

\* PackageInfo::default()
PackageInfoDefault ==
  [ name |-> <<>>, version |-> <<>>, deps |-> <<>>, arch |-> <<>>,
    description |-> <<>>, meta |-> <<>> ]

\* main before it starts; "idle" while get_nix_shell is the program run
MainFresh(at) ==
  /\ main_pc = at
  /\ pkg_type = None
  /\ extract_created = FALSE
  /\ extracted = {}
  /\ internal_libs = {}
  /\ all_needed = {}
  /\ main_missing_libs = {}
  /\ pkg_map = {}
  /\ sorted_pkgs = <<>>
  /\ exit = None

\* get_nix_shell before it starts; "idle" while main is the program run
GetNixShellFresh(at) ==
  /\ pc = at
  /\ package_info = PackageInfoDefault
  /\ result = None
  /\ scan_result = None
  /\ tmp_on_disk = FALSE
  /\ tmp_files = {}
  /\ data_tar = None
  /\ bundled_files = {}
  /\ visited = {}
  /\ needed_libs = {}
  /\ resolve_rest = {}
  /\ resolved_packages = {}
  /\ missing_libs = <<>>
  /\ resolve_log = <<>>

\* the knowledge base before its first use, no file being at any of the paths
ConfigFresh ==
  /\ files = [p \in 1..3 |-> [kind |-> "absent"]]
  /\ LIBRARIES_CONFIG = None
  /\ load_log = <<>>
  /\ calls = 0
  /\ answer = None
  /\ decision = None
  /\ first_run = None
  /\ control = None

Init ==
  /\ ConfigFresh
  /\ filename \in Filenames
  /\ skip_deps \in BOOLEAN
  /\ deb \in DebMembers
  /\ which_runs \in BOOLEAN
  /\ GetNixShellFresh("start")
  /\ MainFresh("idle")
  /\ disk = {}

(* ------------------------- get_nix_shell ------------------------------- *)
\* a variant of normalize_arch: a code that is not known becomes x86_64-linux
normalize_arch_unknown_is_x86(arch) ==
  IF arch = <<"a","r","m","6","4">> THEN <<"a","a","r","c","h","6","4","-","l","i","n","u","x">> ELSE <<"x","8","6","_","6","4","-","l","i","n","u","x">>

\* the architecture codes of the Debian control data, as Nix systems
normalize_arch(arch) ==
  IF arch = <<"a","m","d","6","4">> THEN <<"x","8","6","_","6","4","-","l","i","n","u","x">>
  ELSE IF arch = <<"a","r","m","6","4">> THEN <<"a","a","r","c","h","6","4","-","l","i","n","u","x">>
  ELSE arch

\* the text after a control field's key, trimmed
field_value(line, key) == trim(SubSeq(line, Len(key) + 1, Len(line)))

\* one line of the control data, applied to the PackageInfo
parse_line(info, line) ==
  IF starts_with(line, <<"P","a","c","k","a","g","e",":"," ">>)
  THEN [info EXCEPT !.name = field_value(line, <<"P","a","c","k","a","g","e",":"," ">>)]
  ELSE IF starts_with(line, <<"V","e","r","s","i","o","n",":"," ">>)
  THEN [info EXCEPT !.version = field_value(line, <<"V","e","r","s","i","o","n",":"," ">>)]
  ELSE IF starts_with(line, <<"A","r","c","h","i","t","e","c","t","u","r","e",":"," ">>)
  THEN [info EXCEPT !.arch = normalize_arch(field_value(line, <<"A","r","c","h","i","t","e","c","t","u","r","e",":"," ">>))]
  ELSE IF starts_with(line, <<"D","e","s","c","r","i","p","t","i","o","n",":"," ">>)
  THEN [info EXCEPT !.description = field_value(line, <<"D","e","s","c","r","i","p","t","i","o","n",":"," ">>)]
  ELSE info

RECURSIVE parse_lines(_, _)
parse_lines(info, ls) ==
  IF ls = <<>> THEN info ELSE parse_lines(parse_line(info, Head(ls)), Tail(ls))

\* get_nix_shell, first part: the empty-name check
GetNixShellEnter ==
  /\ pc = "start"
  /\ IF filename = <<>>
     THEN /\ result' = Some(Err("Filename cannot be empty"))
          /\ pc' = "done"
     ELSE /\ result' = result
          /\ pc' = "dpkg"
  /\ UNCHANGED << config_vars, main_vars, world, package_info, scan_result, tmp_on_disk, scan_vars >>

\* a variant of DpkgInfo: the flag is not looked at, the scan always follows
DpkgInfo_ignores_flag(first, second) ==
  LET output == IF first.spawned /\ first.success THEN first ELSE second
      info == IF output.spawned /\ output.success
              THEN parse_lines(package_info, lines(trim(output.stdout)))
              ELSE package_info
  IN  IF ~output.spawned
      THEN /\ result' = Some(Err("Failed to read deb info"))
           /\ pc' = "done"
           /\ package_info' = package_info
      ELSE /\ package_info' = info
           /\ result' = result /\ pc' = "tempdir"

\* get_nix_shell, second part, first being what `dpkg --info` gives and
\* second what the nix-shell fallback gives: the control fields are read when
\* the command used succeeded; with skip_deps the function returns here
DpkgInfo(first, second) ==
  LET output == IF first.spawned /\ first.success THEN first ELSE second
      info == IF output.spawned /\ output.success
              THEN parse_lines(package_info, lines(trim(output.stdout)))
              ELSE package_info
  IN  IF ~output.spawned
      THEN /\ result' = Some(Err("Failed to read deb info"))
           /\ pc' = "done"
           /\ package_info' = package_info
      ELSE /\ package_info' = info
           /\ IF skip_deps
              THEN result' = Some(Ok(info)) /\ pc' = "done"
              ELSE result' = result /\ pc' = "tempdir"

\* get_nix_shell, second part, `dpkg --info` giving one of firsts and the
\* fallback one of seconds; the output used is kept on record
GetNixShellInfoFrom(firsts, seconds) ==
  /\ pc = "dpkg"
  /\ \E first \in firsts, second \in seconds :
       /\ DpkgInfo(first, second)
       /\ control' = Some(IF first.spawned /\ first.success THEN first ELSE second)
  /\ UNCHANGED << main_vars, world, scan_result, tmp_on_disk, scan_vars,
                  files, LIBRARIES_CONFIG, load_log, calls, answer, decision, first_run >>

\* get_nix_shell, second part, with what the two commands can give
GetNixShellInfo == GetNixShellInfoFrom(DpkgOutputs, DpkgOutputs)

\* a variant of ScanReturn: get_nix_shell passes the error on (`?`)
ScanReturn_propagates(r) ==
  /\ scan_result' = Some(r)
  /\ tmp_on_disk' = FALSE
  /\ tmp_files' = {}
  /\ package_info' = IF r.ok THEN [package_info EXCEPT !.deps = r.val[1]] ELSE package_info
  /\ result' = IF r.ok THEN Some(Ok(package_info')) ELSE Some(r)
  /\ pc' = "done"

\* scan_binary_and_resolve returns r: its TempDir is dropped, which removes the
\* directory; get_nix_shell takes the dependencies of an Ok, reports an Err,
\* and returns the PackageInfo either way
ScanReturn(r) ==
  /\ scan_result' = Some(r)
  /\ tmp_on_disk' = FALSE
  /\ tmp_files' = {}
  /\ package_info' = IF r.ok THEN [package_info EXCEPT !.deps = r.val[1]] ELSE package_info
  /\ result' = Some(Ok(package_info'))
  /\ pc' = "done"

(* --------------------- scan_binary_and_resolve ------------------------- *)
\* tempdir(): the directory is created, or the call fails and the function
\* returns the error before anything exists
ScanTempdir ==
  /\ pc = "tempdir"
  /\ \/ /\ tmp_on_disk' = TRUE
        /\ pc' = "canonicalize"
        /\ UNCHANGED << package_info, result, scan_result, tmp_files >>
     \/ ScanReturn(Err("tempdir failed"))
  /\ UNCHANGED << config_vars, main_vars, world, data_tar, bundled_files, visited, needed_libs,
                  resolve_rest, resolved_packages, missing_libs, resolve_log >>

\* fs::canonicalize(deb_path)?
ScanCanonicalize ==
  /\ pc = "canonicalize"
  /\ \/ /\ pc' = "ar"
        /\ UNCHANGED << package_info, result, scan_result, tmp_on_disk, tmp_files >>
     \/ ScanReturn(Err("canonicalize failed"))
  /\ UNCHANGED << config_vars, main_vars, world, data_tar, bundled_files, visited, needed_libs,
                  resolve_rest, resolved_packages, missing_libs, resolve_log >>

\* `ar x` in the temporary directory: not started, a failure status, or the
\* members of the archive unpacked
ScanAr ==
  /\ pc = "ar"
  /\ \/ /\ tmp_files' = deb
        /\ pc' = "read_dir"
        /\ UNCHANGED << package_info, result, scan_result, tmp_on_disk >>
     \/ ScanReturn(Err("ar could not be started"))
     \/ ScanReturn(Err("Failed to unpack deb archive"))
  /\ UNCHANGED << config_vars, main_vars, world, data_tar, bundled_files, visited, needed_libs,
                  resolve_rest, resolved_packages, missing_libs, resolve_log >>

\* the search of the temporary directory for a member named data.tar*
ScanReadDir ==
  /\ pc = "read_dir"
  /\ LET found == {f \in tmp_files : starts_with(f.name, <<"d","a","t","a",".","t","a","r">>)}
     IN  \/ /\ found # {}
            /\ \E f \in found : data_tar' = Some(f.name)
            /\ pc' = "tar"
            /\ UNCHANGED << package_info, result, scan_result, tmp_on_disk, tmp_files >>
         \/ /\ found = {}
            /\ data_tar' = data_tar
            /\ ScanReturn(Err("Could not find data.tar.* archive inside deb"))
         \/ /\ data_tar' = data_tar
            /\ ScanReturn(Err("read_dir failed"))
  /\ UNCHANGED << config_vars, main_vars, world, bundled_files, visited, needed_libs, resolve_rest,
                  resolved_packages, missing_libs, resolve_log >>

\* `tar xf data.tar*`: not started is an error; a failure status is only a
\* warning. Either way the regular files tar wrote are now in the directory:
\* the payload on success, the part of it written before the failure otherwise
ScanTar ==
  /\ pc = "tar"
  /\ \/ /\ \E payload \in Payloads : tmp_files' = tmp_files \cup payload
        /\ pc' = "walk"
        /\ UNCHANGED << package_info, result, scan_result, tmp_on_disk >>
     \/ /\ \E part \in Payloads : tmp_files' = tmp_files \cup part
        /\ pc' = "walk"
        /\ UNCHANGED << package_info, result, scan_result, tmp_on_disk >>
     \/ ScanReturn(Err("tar could not be started"))
  /\ UNCHANGED << config_vars, main_vars, world, data_tar, bundled_files, visited, needed_libs,
                  resolve_rest, resolved_packages, missing_libs, resolve_log >>

\* the first walk: the file name of every regular file
ScanWalkBundled ==
  /\ pc = "walk"
  /\ bundled_files' = {f.name : f \in tmp_files}
  /\ pc' = "scan"
  /\ UNCHANGED << config_vars, main_vars, world, package_info, result, scan_result, tmp_on_disk, tmp_files,
                  data_tar, visited, needed_libs, resolve_rest, resolved_packages,
                  missing_libs, resolve_log >>

\* variants of wanted: one of its three checks left out
wanted_no_map_check(lib, bundled) ==
  lib # <<>> /\ lib \notin SYSTEM_LIBS /\ lib \notin bundled
wanted_no_system_check(lib, bundled) ==
  lib # <<>> /\ (contains_key(LIB_TO_PKG_MAP, lib) \/ lib \notin bundled)
wanted_no_bundled_check(lib, bundled) ==
  lib # <<>> /\ lib \notin SYSTEM_LIBS

\* whether a trimmed line of the introspection output goes into needed_libs
wanted(lib, bundled) ==
  /\ lib # <<>>
  /\ lib \notin SYSTEM_LIBS
  /\ (contains_key(LIB_TO_PKG_MAP, lib) \/ lib \notin bundled)

\* the trimmed lines of a file's introspection output: none unless patchelf
\* ran and succeeded
printed_needed(f) ==
  IF f.needed.spawned /\ f.needed.success
  THEN {trim(l) : l \in Elems(lines(f.needed.stdout))}
  ELSE {}

\* the libraries one file adds to needed_libs
needed_of(f, bundled) == {lib \in printed_needed(f) : wanted(lib, bundled)}

\* the second walk, one regular file at a time, in the order the walk meets them
ScanFile ==
  /\ pc = "scan"
  /\ \E f \in tmp_files \ visited :
       /\ visited' = visited \cup {f}
       /\ needed_libs' = needed_libs \cup needed_of(f, bundled_files)
  /\ UNCHANGED << config_vars, main_vars, pc, world, package_info, result, scan_result, tmp_on_disk, tmp_files,
                  data_tar, bundled_files, resolve_rest, resolved_packages,
                  missing_libs, resolve_log >>

\* the walk is over: the resolve loop takes needed_libs
ScanWalkDone ==
  /\ pc = "scan"
  /\ visited = tmp_files
  /\ resolve_rest' = needed_libs
  /\ pc' = "resolve"
  /\ UNCHANGED << config_vars, main_vars, world, package_info, result, scan_result, tmp_on_disk, tmp_files,
                  data_tar, bundled_files, visited, needed_libs, resolved_packages,
                  missing_libs, resolve_log >>

\* the package a nix-locate output names: the last dotted segment of its
\* first line, when that line is not blank
first_line_pkg(stdout) ==
  LET ls == lines(stdout)
  IN  IF ls # <<>> /\ trim(ls[1]) # <<>>
      THEN Some(last(split(trim(ls[1]), ".")))
      ELSE None

\* a nix-locate invocation, as it is logged
Query(kind, arg, out) == [kind |-> kind, arg |-> arg, out |-> out]

\* a variant of resolve_lib_via_locate: a library the index gives nothing for
\* is answered with its own name
resolve_guessing(lib_name, which, exact, loose) ==
  LET kb == get(LIB_TO_PKG_MAP, lib_name)
      q1 == Query("at-root", <<"/","l","i","b","/">> \o lib_name, exact)
      q2 == Query("defined", lib_name, loose)
      first == IF exact.spawned /\ exact.success THEN first_line_pkg(exact.stdout) ELSE None
      guess == Some(lib_name)
  IN  IF kb.some THEN [pkg |-> kb, queries |-> <<>>]
      ELSE IF ~which THEN [pkg |-> guess, queries |-> <<>>]
      ELSE IF ~exact.spawned THEN [pkg |-> guess, queries |-> <<q1>>]
      ELSE IF first.some THEN [pkg |-> first, queries |-> <<q1>>]
      ELSE IF ~loose.spawned THEN [pkg |-> guess, queries |-> <<q1, q2>>]
      ELSE IF first_line_pkg(loose.stdout).some
      THEN [pkg |-> first_line_pkg(loose.stdout), queries |-> <<q1, q2>>]
      ELSE [pkg |-> guess, queries |-> <<q1, q2>>]

\* a variant of resolve_lib_via_locate: the index is asked first, and
\* LIB_TO_PKG_MAP only when the index gave nothing
resolve_index_first(lib_name, which, exact, loose) ==
  LET kb == get(LIB_TO_PKG_MAP, lib_name)
      q1 == Query("at-root", <<"/","l","i","b","/">> \o lib_name, exact)
      q2 == Query("defined", lib_name, loose)
      first == IF exact.spawned /\ exact.success THEN first_line_pkg(exact.stdout) ELSE None
  IN  IF ~which THEN [pkg |-> kb, queries |-> <<>>]
      ELSE IF ~exact.spawned THEN [pkg |-> kb, queries |-> <<q1>>]
      ELSE IF first.some THEN [pkg |-> first, queries |-> <<q1>>]
      ELSE IF ~loose.spawned THEN [pkg |-> kb, queries |-> <<q1, q2>>]
      ELSE IF first_line_pkg(loose.stdout).some
      THEN [pkg |-> first_line_pkg(loose.stdout), queries |-> <<q1, q2>>]
      ELSE [pkg |-> kb, queries |-> <<q1, q2>>]

\* resolve_lib_via_locate(lib_name), `which` being startable or not and the
\* two nix-locate invocations giving exact and loose: the package, and the
\* invocations made
resolve_lib_via_locate(lib_name, which, exact, loose) ==
  LET kb == get(LIB_TO_PKG_MAP, lib_name)
      q1 == Query("at-root", <<"/","l","i","b","/">> \o lib_name, exact)
      q2 == Query("defined", lib_name, loose)
      first == IF exact.spawned /\ exact.success THEN first_line_pkg(exact.stdout) ELSE None
  IN  IF kb.some THEN [pkg |-> kb, queries |-> <<>>]
      ELSE IF ~which THEN [pkg |-> None, queries |-> <<>>]
      ELSE IF ~exact.spawned THEN [pkg |-> None, queries |-> <<q1>>]
      ELSE IF first.some THEN [pkg |-> first, queries |-> <<q1>>]
      ELSE IF ~loose.spawned THEN [pkg |-> None, queries |-> <<q1, q2>>]
      ELSE [pkg |-> first_line_pkg(loose.stdout), queries |-> <<q1, q2>>]

\* a variant of resolve_round: the library is pushed to missing_libs also when
\* a package was found for it
resolve_round_keeps_lib(lib, r) ==
  /\ resolve_rest' = resolve_rest \ {lib}
  /\ resolve_log' = resolve_log @@ (lib :> r)
  /\ missing_libs' = Append(missing_libs, lib)
  /\ resolved_packages' = IF r.pkg.some THEN resolved_packages \cup {r.pkg.val}
                          ELSE resolved_packages

\* the body of the resolve loop for library lib, r being what
\* resolve_lib_via_locate gave for it
resolve_round(lib, r) ==
  /\ resolve_rest' = resolve_rest \ {lib}
  /\ resolve_log' = resolve_log @@ (lib :> r)
  /\ IF r.pkg.some
     THEN /\ resolved_packages' = resolved_packages \cup {r.pkg.val}
          /\ missing_libs' = missing_libs
     ELSE /\ missing_libs' = Append(missing_libs, lib)
          /\ resolved_packages' = resolved_packages

\* one round of the resolve loop, for the library the iteration of the
\* HashSet gives next
ScanResolveLib ==
  /\ pc = "resolve"
  /\ \E lib \in resolve_rest, exact \in LocateOutputs, loose \in LocateOutputs :
       resolve_round(lib, resolve_lib_via_locate(lib, which_runs, exact, loose))
  /\ UNCHANGED << config_vars, main_vars, pc, world, package_info, result, scan_result, tmp_on_disk, tmp_files,
                  data_tar, bundled_files, visited, needed_libs >>

\* the end of scan_binary_and_resolve: the set of packages becomes a vector,
\* in the order its iteration gives, both vectors are sorted, and Ok returns
ScanFinish ==
  /\ pc = "resolve"
  /\ resolve_rest = {}
  /\ \E collected \in Orders(resolved_packages) :
       /\ missing_libs' = sort(missing_libs)
       /\ ScanReturn(Ok(<< sort(collected), missing_libs' >>))
  /\ UNCHANGED << config_vars, main_vars, world, data_tar, bundled_files, visited, needed_libs, resolve_rest,
                  resolved_packages, resolve_log >>

Next ==
  \/ GetNixShellEnter
  \/ GetNixShellInfo
  \/ ScanTempdir
  \/ ScanCanonicalize
  \/ ScanAr
  \/ ScanReadDir
  \/ ScanTar
  \/ ScanWalkBundled
  \/ ScanFile
  \/ ScanWalkDone
  \/ ScanResolveLib
  \/ ScanFinish

Spec == Init /\ [][Next]_vars

(* ------------------- properties of get_nix_shell ----------------------- *)
\* scan_binary_and_resolve has returned Ok((result_pkgs, missing_libs))
ScanOk == pc = "done" /\ scan_result.some /\ scan_result.val.ok
result_pkgs == scan_result.val.val[1]
result_missing == scan_result.val.val[2]

\* the required libraries: the non-blank lines the introspection of the
\* scanned files printed
Required == UNION {printed_needed(f) : f \in visited} \ {<<>>}

Mapped(lib) == contains_key(LIB_TO_PKG_MAP, lib)
PkgOf(lib) == get(LIB_TO_PKG_MAP, lib).val

\* the resolve loop has visited lib and found package p, or no package
Answered(lib, p) == lib \in DOMAIN resolve_log /\ resolve_log[lib].pkg = Some(p)
Unanswered(lib) == lib \in DOMAIN resolve_log /\ resolve_log[lib].pkg = None

\* C1: when scan_binary_and_resolve returns Ok, the mapped package of every
\* required library that has a LIB_TO_PKG_MAP entry and is no system library
\* is in the resolved list, whether or not a file of that name is bundled.
C1_MappedLibraryResolved ==
  ScanOk =>
    \A lib \in Required :
      (Mapped(lib) /\ lib \notin SYSTEM_LIBS) => PkgOf(lib) \in Elems(result_pkgs)

\* a run that returned Ok with a required, mapped library whose file is bundled
C1_Witness ==
  /\ ScanOk
  /\ \E lib \in Required :
       /\ Mapped(lib) /\ lib \notin SYSTEM_LIBS /\ lib \in bundled_files
       /\ PkgOf(lib) \in Elems(result_pkgs)

\* C2: a system library is never kept for resolution, never looked up, never
\* in the missing list, and every resolved package is the answer given for a
\* library that is not a system library.
C2_SystemLibraryDropped ==
  /\ needed_libs \cap SYSTEM_LIBS = {}
  /\ DOMAIN resolve_log \cap SYSTEM_LIBS = {}
  /\ Elems(missing_libs) \cap SYSTEM_LIBS = {}
  /\ \A p \in resolved_packages :
       \E lib \in DOMAIN resolve_log \ SYSTEM_LIBS : Answered(lib, p)
  /\ ScanOk =>
       /\ Elems(result_missing) \cap SYSTEM_LIBS = {}
       /\ \A p \in Elems(result_pkgs) :
            \E lib \in Required \ SYSTEM_LIBS : Answered(lib, p)

\* a run that returned Ok, with a system library among the required ones and
\* a package resolved for another library
C2_Witness ==
  /\ ScanOk
  /\ Required \cap SYSTEM_LIBS # {}
  /\ result_pkgs # <<>>

\* the nix-locate invocations made so far, for any library
AllQueries == UNION {Elems(resolve_log[l].queries) : l \in DOMAIN resolve_log}

\* C3: a required library without LIB_TO_PKG_MAP entry whose name is the name
\* of a bundled file is not kept for resolution: no package is resolved for
\* it, it is not in the missing list, and nix-locate is never run for it.
C3_BundledSelfSatisfied ==
  \A lib \in bundled_files :
    ~Mapped(lib) =>
      /\ lib \notin needed_libs
      /\ lib \notin DOMAIN resolve_log
      /\ lib \notin Elems(missing_libs)
      /\ \A q \in AllQueries : q.arg # lib /\ q.arg # <<"/","l","i","b","/">> \o lib
      /\ ScanOk => lib \notin Elems(result_missing)

\* a run that returned Ok, with a required, unmapped, bundled library that is
\* no system library
C3_Witness ==
  /\ ScanOk
  /\ \E lib \in Required \cap bundled_files : ~Mapped(lib) /\ lib \notin SYSTEM_LIBS

\* the required libraries the resolver does not skip: not a system library,
\* and mapped or not bundled
NotSkipped == {lib \in Required : lib \notin SYSTEM_LIBS /\ (Mapped(lib) \/ lib \notin bundled_files)}

\* lib ends in exactly one output: its package in resolved, or itself in
\* missing
ExactlyOne(lib) ==
  /\ lib \in DOMAIN resolve_log
  /\ IF resolve_log[lib].pkg.some
     THEN resolve_log[lib].pkg.val \in Elems(result_pkgs) /\ lib \notin Elems(result_missing)
     ELSE lib \in Elems(result_missing)

\* C4 as claimed: the two lists share no string, and every library not
\* skipped ends in exactly one of them.
C4_Original ==
  ScanOk =>
    /\ Elems(result_pkgs) \cap Elems(result_missing) = {}
    /\ \A lib \in NotSkipped : ExactlyOne(lib)

\* C4 (amended): every library not skipped ends in exactly one of the two
\* outputs; resolved holds package names only and missing holds names of
\* unresolved libraries only; a string is in both lists only as the package
\* found for one library and the name of another, unresolved library.
C4_ExactlyOneOutput ==
  ScanOk =>
    /\ \A lib \in NotSkipped : ExactlyOne(lib)
    /\ \A p \in Elems(result_pkgs) :
         \E lib \in NotSkipped : Answered(lib, p)
    /\ \A m \in Elems(result_missing) :
         m \in NotSkipped /\ Unanswered(m)
    /\ \A s \in Elems(result_pkgs) \cap Elems(result_missing) :
         \E lib \in NotSkipped \ {s} : Answered(lib, s)

\* a run that returned Ok with one library resolved and another missing
C4_Witness ==
  /\ ScanOk
  /\ \E a, b \in NotSkipped :
       /\ \E p \in Elems(result_pkgs) : Answered(a, p)
       /\ Unanswered(b) /\ b \in Elems(result_missing)

IsStrictlySorted(v) == \A i \in 1..(Len(v) - 1) : StrLess(v[i], v[i + 1])

\* C5: the resolved list is sorted and free of duplicates, the missing list
\* is sorted, and both are determined by the set of scanned files and the
\* answers of the index alone: they are the sorted enumerations of the set of
\* packages found and of the set of libraries without package, whatever the
\* order of the walk and of the iteration of needed_libs was.
C5_SortedAndOrderIndependent ==
  ScanOk =>
    LET needed == UNION {needed_of(f, {g.name : g \in visited}) : f \in visited}
    IN  /\ IsStrictlySorted(result_pkgs)
        /\ IsStrictlySorted(result_missing)
        /\ DOMAIN resolve_log = needed
        /\ Elems(result_pkgs) =
             {resolve_log[l].pkg.val : l \in {x \in needed : resolve_log[x].pkg.some}}
        /\ Elems(result_missing) = {l \in needed : ~resolve_log[l].pkg.some}

\* a run that returned Ok with two packages and two missing libraries
C5_Witness ==
  /\ ScanOk
  /\ Len(result_pkgs) >= 2
  /\ Len(result_missing) >= 2

\* the index is unavailable for lib: `which` cannot be started, or every
\* nix-locate run made for it could not be started or printed no line
IndexUnavailable(lib) ==
  \/ ~which_runs
  \/ \A q \in Elems(resolve_log[lib].queries) :
       ~q.out.spawned \/ lines(q.out.stdout) = <<>>

\* C6: a library that is kept for resolution, has no LIB_TO_PKG_MAP entry and
\* finds the index unavailable gets no package and is pushed to missing_libs,
\* and scan_binary_and_resolve, once it resolves, returns Ok with the library
\* in the missing list.
C6_IndexUnavailableIsMissing ==
  /\ \A lib \in DOMAIN resolve_log :
       (~Mapped(lib) /\ IndexUnavailable(lib)) =>
         /\ resolve_log[lib].pkg = None
         /\ lib \in Elems(missing_libs)
  /\ (pc = "done" /\ DOMAIN resolve_log # {}) =>
       /\ ScanOk
       /\ result.val.ok
       /\ \A lib \in DOMAIN resolve_log :
            (~Mapped(lib) /\ IndexUnavailable(lib)) => lib \in Elems(result_missing)

\* a run that returned Ok in which nix-locate could not be started for a
\* library, which is in the missing list
C6_Witness ==
  /\ ScanOk
  /\ which_runs
  /\ \E lib \in DOMAIN resolve_log :
       /\ ~Mapped(lib)
       /\ resolve_log[lib].queries # <<>>
       /\ \A q \in Elems(resolve_log[lib].queries) : ~q.out.spawned
       /\ lib \in Elems(result_missing)

\* the output-suffix tokens of a dotted candidate
OutputSuffixes == { <<"o","u","t">>, <<"d","e","v">>, <<"l","i","b">>, <<"b","i","n">>, <<"m","a","n">>, <<"d","o","c">> }

\* the package the tie-break of the specification names for a nix-locate
\* output: of the first non-blank line without parenthesis, the last dotted
\* segment once a trailing output suffix is stripped
TieBreakPkg(stdout) ==
  LET ls == lines(stdout)
      plain == {i \in 1..Len(ls) : trim(ls[i]) # <<>> /\ ~contains_char(ls[i], "(")}
  IN  IF plain = {} THEN None
      ELSE LET i == CHOOSE k \in plain : \A j \in plain : k <= j
               parts == split(trim(ls[i]), ".")
               kept == IF Len(parts) > 1 /\ last(parts) \in OutputSuffixes
                       THEN SubSeq(parts, 1, Len(parts) - 1)
                       ELSE parts
           IN  Some(last(kept))

\* C7 as claimed: the package taken from a nix-locate output with a line
\* without parenthesis is the one the tie-break names, and is no output suffix.
C7_Original ==
  \A lib \in DOMAIN resolve_log :
    LET r == resolve_log[lib]
    IN  (r.queries # <<>> /\ r.pkg.some /\ last(r.queries).out.spawned
           /\ TieBreakPkg(last(r.queries).out.stdout).some) =>
          /\ r.pkg = TieBreakPkg(last(r.queries).out.stdout)
          /\ r.pkg.val \notin OutputSuffixes

\* C10 as claimed: when `ar x` fails or no data.tar.* member is found, the
\* run ends with an error and gives no package information.
UnpackFailed ==
  /\ scan_result.some
  /\ ~scan_result.val.ok
  /\ scan_result.val.err \in { "Failed to unpack deb archive", "ar could not be started",
                               "Could not find data.tar.* archive inside deb" }

C11_ScanSide ==
  pc \in {"resolve", "done"} /\ visited # {} =>
    /\ visited = tmp_files \/ pc = "done"
    /\ needed_libs =
         { lib \in UNION { {trim(l) : l \in Elems(lines(f.needed.stdout))} :
                           f \in {g \in visited : g.needed.spawned /\ g.needed.success} } :
             wanted(lib, bundled_files) }

\* the walk met a file patchelf failed on after printing a line, and one whose
\* introspection succeeded, and the scan returned Ok
C11_ScanSide_Witness ==
  /\ ScanOk
  /\ \E f \in visited : f.needed.spawned /\ ~f.needed.success /\ f.needed.stdout # <<>>
  /\ needed_libs # {}

\* the metadata fields of a PackageInfo
Metadata(info) == << info.name, info.version, info.arch, info.description, info.meta >>

\* the PackageInfo the control data of dpkg output o gives
InfoOf(o) ==
  IF o.success
  THEN parse_lines(PackageInfoDefault, lines(trim(o.stdout)))
  ELSE PackageInfoDefault

\* C17: with skip_deps, get_nix_shell never makes the temporary directory,
\* unpacks, scans a file or looks a library up, and the PackageInfo it returns
\* has no dependencies; with or without skip_deps, the metadata fields it
\* returns are those the control data gives.
C17_SkipDepsSkipsScan ==
  /\ skip_deps =>
       /\ pc \in {"start", "dpkg", "done"}
       /\ ~tmp_on_disk /\ tmp_files = {} /\ data_tar = None
       /\ scan_result = None
       /\ bundled_files = {} /\ visited = {} /\ needed_libs = {}
       /\ DOMAIN resolve_log = {} /\ resolved_packages = {} /\ missing_libs = <<>>
       /\ (pc = "done" /\ result.val.ok) => result.val.val.deps = <<>>
  /\ (pc = "done" /\ result.val.ok) =>
       Metadata(result.val.val) = Metadata(InfoOf(control.val))

\* get_nix_shell returned with skip_deps, the control data read
C17_Witness ==
  /\ skip_deps
  /\ pc = "done" /\ result.val.ok
  /\ result.val.val.name = <<"d","e","m","o">>
  /\ result.val.val.arch = <<"x","8","6","_","6","4","-","l","i","n","u","x">>
  /\ result.val.val.deps = <<>>

\* a nix-locate run printed a first line that is not blank
GaveLine(out) ==
  /\ out.spawned
  /\ lines(out.stdout) # <<>>
  /\ trim(lines(out.stdout)[1]) # <<>>

\* the two queries, as resolve_lib_via_locate issues them for lib
IsExactQuery(q, lib) == q.kind = "at-root" /\ q.arg = <<"/","l","i","b","/">> \o lib
IsLooseQuery(q, lib) == q.kind = "defined" /\ q.arg = lib

\* the order of the chain, common to the claim and its amended form: at most
\* the exact query and then the loose one, and none for a mapped library
ChainOrder(lib) ==
  LET r == resolve_log[lib]
  IN  /\ Len(r.queries) <= 2
      /\ Len(r.queries) >= 1 => IsExactQuery(r.queries[1], lib)
      /\ Len(r.queries) = 2 => IsLooseQuery(r.queries[2], lib)
      /\ Mapped(lib) => r.queries = <<>> /\ r.pkg = Some(PkgOf(lib))

\* C18 as claimed: for each library looked up, a mapped library is answered
\* without a query; the exact query is issued only for an unmapped library;
\* the loose query only after the exact query gave no non-blank first line;
\* and None is returned only after both queries were issued and gave nothing.
C18_Original ==
  \A lib \in DOMAIN resolve_log :
    LET r == resolve_log[lib]
    IN  /\ ChainOrder(lib)
        /\ Len(r.queries) = 2 => ~GaveLine(r.queries[1].out)
        /\ r.pkg = None =>
             /\ Len(r.queries) = 2
             /\ ~GaveLine(r.queries[1].out)
             /\ ~GaveLine(r.queries[2].out)

\* C18, amended: the loose query is issued only after the exact query ran and
\* failed or gave no non-blank first line; None is returned only when `which`
\* or a nix-locate run could not be started, or after the exact query failed
\* or gave no line and the loose query gave no line; in every other case the
\* answer is the first hit.
C18_LookupChain ==
  \A lib \in DOMAIN resolve_log :
    LET r == resolve_log[lib]
        q == r.queries
    IN  /\ ChainOrder(lib)
        /\ (~Mapped(lib) /\ Len(q) = 0) => ~which_runs /\ r.pkg = None
        /\ Len(q) = 1 =>
             \/ ~q[1].out.spawned /\ r.pkg = None
             \/ q[1].out.success /\ GaveLine(q[1].out) /\ r.pkg.some
        /\ Len(q) = 2 =>
             /\ q[1].out.spawned
             /\ ~q[1].out.success \/ ~GaveLine(q[1].out)
             /\ r.pkg.some <=> GaveLine(q[2].out)
        /\ r.pkg = None =>
             \/ ~which_runs /\ q = <<>>
             \/ Len(q) = 1 /\ ~q[1].out.spawned
             \/ Len(q) = 2 /\ ~GaveLine(q[2].out)

\* a scan that answered one library from the map without a query, and
\* another by the loose query after the exact query had failed with a line
\* printed
C18_Witness ==
  /\ ScanOk
  /\ \E lib \in DOMAIN resolve_log : Mapped(lib) /\ resolve_log[lib].queries = <<>>
  /\ \E lib \in DOMAIN resolve_log :
       LET r == resolve_log[lib]
       IN  /\ Len(r.queries) = 2
           /\ ~r.queries[1].out.success
           /\ GaveLine(r.queries[1].out)
           /\ r.pkg.some
(* ------------------------------- main ---------------------------------- *)
\* the trees an extraction can leave below the extraction directory: at most
\* MaxFiles regular files, their names and introspection outputs drawn from these
MainFileNames == { <<"a","p","p">>, <<"l","i","b","Q","t","5","C","o","r","e",".","s","o",".","5">> }
MainNeededOutputs ==
  { NotSpawned,
    Ran(FALSE, <<"l","d","-","l","i","n","u","x","-","x","8","6","-","6","4",".","s","o",".","2","\n","l","i","b","z",".","s","o",".","1","\n">>),
    Ran(TRUE, <<"l","i","b","Q","t","6","C","o","r","e",".","s","o",".","6","\n","l","i","b","Q","t","5","X","1","1","E","x","t","r","a","s",".","s","o",".","5","\n">>),
    Ran(TRUE, <<"l","i","b","Q","t","5","C","o","r","e",".","s","o",".","5","\n"," ","l","i","b","f","o","o",".","s","o",".","1"," ","\n">>) }
MainTrees ==
  {t \in SUBSET [name : MainFileNames, needed : MainNeededOutputs] : Cardinality(t) <= MaxFiles}

\* what one nix-locate invocation of main can give
MainLocateOutputs ==
  { NotSpawned,
    Ran(TRUE, <<>>),
    Ran(TRUE, <<"(","w","r","a","p","p","e","d",".","o","u","t",")","\n","q","t","5",".","q","t","s","v","g",".","o","u","t","\n">>),
    Ran(TRUE, <<"f","o","o","\n">>) }

InitMain ==
  /\ ConfigFresh
  /\ filename = <<>>
  /\ skip_deps = FALSE
  /\ deb = {}
  /\ which_runs = TRUE
  /\ GetNixShellFresh("idle")
  /\ MainFresh("args")
  /\ disk \in SUBSET {"downloaded_temp_file", "extracted_root"}

\* the process ends with e; nothing more is done
MainExit(e) ==
  /\ main_pc' = "exited"
  /\ exit' = Some(e)

\* main up to the download: the argument check, the two nix-prefetch-url runs
\* and, when no downloaded_temp_file is there, wget, which may or may not
\* leave the file
MainFetch ==
  /\ main_pc = "args"
  /\ \/ MainExit("exit(1)") /\ disk' = disk
     \/ MainExit(Err("nix-prefetch-url could not be started")) /\ disk' = disk
     \/ MainExit(Err("the hash is not UTF-8")) /\ disk' = disk
     \/ /\ "downloaded_temp_file" \notin disk
        /\ MainExit(Err("wget could not be started"))
        /\ disk' = disk
     \/ /\ main_pc' = "detect"
        /\ exit' = exit
        /\ \/ disk' = disk
           \/ "downloaded_temp_file" \notin disk /\ disk' = disk \cup {"downloaded_temp_file"}
  /\ UNCHANGED << config_vars, get_nix_shell_vars, pkg_type, extract_created, extracted, internal_libs,
                  all_needed, main_missing_libs, pkg_map, sorted_pkgs >>

\* detect_file_type, and the rename to package.deb or package.AppImage
MainDetect ==
  /\ main_pc = "detect"
  /\ \/ /\ "downloaded_temp_file" \notin disk
        /\ MainExit(Err("downloaded_temp_file cannot be opened"))
        /\ UNCHANGED << pkg_type, disk >>
     \/ /\ "downloaded_temp_file" \in disk
        /\ \/ MainExit(Err("Unknown file type")) /\ UNCHANGED << pkg_type, disk >>
           \/ \E t \in {"Deb", "AppImage"} :
                /\ pkg_type' = Some(t)
                /\ \/ MainExit(Err("rename failed")) /\ disk' = disk
                   \/ /\ disk' = (disk \ {"downloaded_temp_file"}) \cup {"package"}
                      /\ main_pc' = "metadata"
                      /\ exit' = exit
  /\ UNCHANGED << config_vars, get_nix_shell_vars, extract_created, extracted, internal_libs,
                  all_needed, main_missing_libs, pkg_map, sorted_pkgs >>

\* extract_metadata, which panics when dpkg-deb cannot be started, and the
\* removal of an extraction directory left by an earlier run
MainMetadata ==
  /\ main_pc = "metadata"
  /\ \/ /\ pkg_type = Some("Deb")
        /\ MainExit("panic: Failed to run dpkg-deb")
        /\ disk' = disk
     \/ /\ disk' = disk \ {"extracted_root"}
        /\ main_pc' = "extract"
        /\ exit' = exit
  /\ UNCHANGED << config_vars, get_nix_shell_vars, pkg_type, extract_created, extracted, internal_libs,
                  all_needed, main_missing_libs, pkg_map, sorted_pkgs >>

\* the extraction. Deb: create_dir, then `dpkg-deb -x`, whose status is
\* ignored. AppImage: squashfs-root is removed, the image extracts itself
\* (status ignored) and squashfs-root is renamed to the extraction directory,
\* which fails when the image left no squashfs-root
MainExtract ==
  /\ main_pc = "extract"
  /\ \/ /\ pkg_type = Some("Deb")
        /\ \/ /\ MainExit(Err("create_dir failed"))
              /\ UNCHANGED << disk, extract_created, extracted >>
           \/ /\ disk' = disk \cup {"extracted_root"}
              /\ extract_created' = TRUE
              /\ \E t \in MainTrees : extracted' = t
              /\ main_pc' = "walk"
              /\ exit' = exit
     \/ /\ pkg_type = Some("AppImage")
        /\ \/ /\ MainExit(Err("rename failed: no squashfs-root"))
              /\ disk' = disk \ {"squashfs-root"}
              /\ UNCHANGED << extract_created, extracted >>
           \/ /\ disk' = (disk \ {"squashfs-root"}) \cup {"extracted_root"}
              /\ extract_created' = TRUE
              /\ \E t \in MainTrees : extracted' = t
              /\ main_pc' = "walk"
              /\ exit' = exit
  /\ UNCHANGED << config_vars, get_nix_shell_vars, pkg_type, internal_libs, all_needed,
                  main_missing_libs, pkg_map, sorted_pkgs >>

\* the lines a file adds to all_needed: whatever patchelf printed, if it
\* could be started
main_printed_needed(f) ==
  IF f.needed.spawned
  THEN {trim(l) : l \in Elems(lines(f.needed.stdout))} \ {<<>>}
  ELSE {}

\* the packages main enters before resolving, for a Deb
ImplicitPkgs ==
  { <<<<"g","l","i","b","c">>, "implicit">>, <<<<"l","i","b","g","c","c">>, "implicit">>,
    <<<<"l","i","b","g","l","v","n","d">>, "implicit-gpu">>, <<<<"m","e","s","a">>, "implicit-gpu">>,
    <<<<"l","i","b","d","r","m">>, "implicit-gpu">>, <<<<"v","u","l","k","a","n","-","l","o","a","d","e","r">>, "implicit-gpu">> }

\* the dependency analysis: the walk of the tree, the difference of the two
\* sets, and the first entries of pkg_map
MainWalk ==
  /\ main_pc = "walk"
  /\ internal_libs' = {f.name : f \in {g \in extracted : contains_str(g.name, <<".","s","o">>)}}
  /\ all_needed' = UNION {main_printed_needed(f) : f \in extracted}
  /\ main_missing_libs' = all_needed' \ internal_libs'
  /\ pkg_map' = IF pkg_type = Some("Deb") THEN ImplicitPkgs ELSE {}
  /\ main_pc' = "resolve"
  /\ UNCHANGED << config_vars, get_nix_shell_vars, pkg_type, disk, extract_created, extracted,
                  sorted_pkgs, exit >>

\* check_common_libs
check_common_libs(lib) == get(COMMON_LIBS, lib)

\* HashMap::insert
insert(m, k, v) == {e \in m : e[1] # k} \cup {<<k, v>>}

\* the package main enters for a library, out being what nix-locate gives
main_resolve(lib, out) ==
  IF starts_with(lib, <<"l","d","-","l","i","n","u","x">>) THEN None
  ELSE IF check_common_libs(lib).some THEN check_common_libs(lib)
  ELSE IF ~out.spawned THEN None
  ELSE LET ls == lines(out.stdout)
           plain == {i \in 1..Len(ls) : ~contains_char(ls[i], "(")}
       IN  IF plain = {} THEN None
           ELSE LET i == CHOOSE k \in plain : \A j \in plain : k <= j
                IN  IF trim(ls[i]) # <<>> THEN Some(trim(ls[i])) ELSE None

\* one round of the resolve loop of main
MainResolveLib ==
  /\ main_pc = "resolve"
  /\ \E lib \in main_missing_libs, out \in MainLocateOutputs :
       LET r == main_resolve(lib, out)
       IN  /\ main_missing_libs' = main_missing_libs \ {lib}
           /\ pkg_map' = IF r.some THEN insert(pkg_map, r.val, lib) ELSE pkg_map
  /\ UNCHANGED << config_vars, get_nix_shell_vars, main_pc, pkg_type, disk, extract_created, extracted,
                  internal_libs, all_needed, sorted_pkgs, exit >>

\* the Qt rule: with both qt6.qtbase and qt5.qtbase entered, every entry
\* whose name starts with qt5 is removed
reconcile(m) ==
  IF contains_key(m, <<"q","t","6",".","q","t","b","a","s","e">>) /\ contains_key(m, <<"q","t","5",".","q","t","b","a","s","e">>)
  THEN {e \in m : ~starts_with(e[1], <<"q","t","5">>)}
  ELSE m

\* the end of the resolve loop: the Qt rule, and the sorted list of the keys
MainReconcile ==
  /\ main_pc = "resolve"
  /\ main_missing_libs = {}
  /\ pkg_map' = reconcile(pkg_map)
  /\ \E keys \in TwoOrders({e[1] : e \in pkg_map'}) : sorted_pkgs' = sort(keys)
  /\ main_pc' = "write"
  /\ UNCHANGED << config_vars, get_nix_shell_vars, pkg_type, disk, extract_created, extracted,
                  internal_libs, all_needed, main_missing_libs, exit >>

\* default.nix is generated and written, then nix-build runs
MainWriteAndBuild ==
  /\ main_pc = "write"
  /\ \/ MainExit(Err("default.nix cannot be created")) /\ disk' = disk
     \/ MainExit(Err("default.nix cannot be written")) /\ disk' = disk \cup {"default.nix"}
     \/ MainExit(Err("nix-build could not be started")) /\ disk' = disk \cup {"default.nix"}
     \/ /\ disk' = disk \cup {"default.nix"}
        /\ main_pc' \in {"prompt", "cleanup"}
        /\ exit' = exit
  /\ UNCHANGED << config_vars, get_nix_shell_vars, pkg_type, extract_created, extracted, internal_libs,
                  all_needed, main_missing_libs, pkg_map, sorted_pkgs >>

\* after a successful build: the two questions on standard input and
\* create_pr, whose error is only printed (its work in the nixpkgs clone is
\* outside this model)
MainPrompt ==
  /\ main_pc = "prompt"
  /\ \/ MainExit(Err("read_line failed"))
     \/ main_pc' = "cleanup" /\ exit' = exit
  /\ UNCHANGED << config_vars, get_nix_shell_vars, pkg_type, disk, extract_created, extracted,
                  internal_libs, all_needed, main_missing_libs, pkg_map, sorted_pkgs >>

\* the last lines of main: the extraction directory and the package file are
\* removed, and main returns Ok
MainCleanup ==
  /\ main_pc = "cleanup"
  /\ disk' = disk \ {"extracted_root", "package"}
  /\ MainExit(Ok(<<>>))
  /\ UNCHANGED << config_vars, get_nix_shell_vars, pkg_type, extract_created, extracted, internal_libs,
                  all_needed, main_missing_libs, pkg_map, sorted_pkgs >>

NextMain ==
  \/ MainFetch
  \/ MainDetect
  \/ MainMetadata
  \/ MainExtract
  \/ MainWalk
  \/ MainResolveLib
  \/ MainReconcile
  \/ MainWriteAndBuild
  \/ MainPrompt
  \/ MainCleanup

SpecMain == InitMain /\ [][NextMain]_vars

(* ------------------------ properties of main --------------------------- *)
Qt5Family(p) == starts_with(p, <<"q","t","5",".">>)
Qt6Family(p) == starts_with(p, <<"q","t","6",".">>)
Keys(m) == {e[1] : e \in m}

\* C8 as claimed: when the resolved set holds an entry of the qt6 family and
\* one of the qt5 family, the list given to the renderer holds no entry of
\* the qt5 family, and the entries of every other family are unchanged.
C8_Original ==
  [][ ( /\ main_pc = "resolve"
        /\ main_pc' = "write"
        /\ \E p \in Keys(pkg_map) : Qt6Family(p)
        /\ \E p \in Keys(pkg_map) : Qt5Family(p) )
      => ( /\ \A p \in Elems(sorted_pkgs') : ~Qt5Family(p)
           /\ \A p \in Keys(pkg_map) : ~Qt5Family(p) => p \in Elems(sorted_pkgs') )
    ]_vars

\* C9 as claimed: once the run has made its extraction directory, no
\* extraction directory is on disk when the process ends, however it ends.
C9_Original ==
  (main_pc = "exited" /\ extract_created) =>
    disk \cap {"extracted_root", "squashfs-root"} = {}


\* a file whose introspection failed: patchelf could not be started, or it
\* exited with a failure status
IntrospectionFailed(f) == ~f.needed.spawned \/ ~f.needed.success

\* the non-blank trimmed lines patchelf printed for a file it could be started on
PrintedLines(f) == {trim(l) : l \in Elems(lines(f.needed.stdout))} \ {<<>>}

\* C11 as claimed, for the walk of main: once the tree is walked, the required
\* set is the union of the outputs of the files whose introspection
\* succeeded; a file whose introspection failed contributes nothing.
C11_Original ==
  main_pc \in {"resolve", "write", "prompt", "cleanup", "exited"} =>
    all_needed = UNION {PrintedLines(f) : f \in {g \in extracted : ~IntrospectionFailed(g)}}

(* ---------------------- the knowledge base ----------------------------- *)
\* what can be at a path: nothing, a file that cannot be read, a file that is
\* no LibrariesConfig in JSON, or a file that parses to config c
KbAbsent == [kind |-> "absent"]
KbUnreadable == [kind |-> "unreadable"]
KbUnparsable == [kind |-> "unparsable"]
KbParses(c) == [kind |-> "parses", config |-> c]

\* a LibrariesConfig: system_libs is a Vec, lib_to_pkg_map a HashMap
LibrariesConfig(libs, map) == [system_libs |-> libs, lib_to_pkg_map |-> map]

\* two contents of a libraries.json
FileConfigA ==
  LibrariesConfig(<< <<"l","i","b","f","o","o",".","s","o",".","1">> >>, { << <<"f","o","o">>, <<"f","o","o","p","k","g">> >> })
FileConfigB ==
  LibrariesConfig(<< <<"l","i","b","c",".","s","o",".","6">>, <<"l","i","b","c",".","s","o",".","6">> >>, { << <<"l","i","b","z",".","s","o",".","1">>, <<"z","l","i","b","-","n","g">> >> })

\* the paths get_config_path tries, in its order: libraries.json,
\* ../libraries.json and $CARGO_MANIFEST_DIR/libraries.json; and what the
\* model lets be at each
KbPaths == 1..3
KbStatesAt(p) ==
  IF p = 1
  THEN {KbAbsent, KbUnreadable, KbUnparsable, KbParses(FileConfigA), KbParses(FileConfigB)}
  ELSE {KbAbsent, KbParses(FileConfigB)}
KbFiles == {fs \in [KbPaths -> KbStatesAt(1)] : \A p \in KbPaths : fs[p] \in KbStatesAt(p)}

\* the library names the calls are made with
KbLibs == { <<"l","i","b","c",".","s","o",".","6">>, <<"l","i","b","z",".","s","o",".","1">>, <<"l","i","b","f","o","o",".","s","o",".","1">>, <<"f","o","o">> }

\* what nix-locate gives in the decisions of the resolver
KbLocateOutputs == { Ran(TRUE, <<>>), Ran(TRUE, <<"n","i","x","p","k","g","s",".","f","o","o","\n">>) }

\* the largest number of is_system_lib and get_pkg_for_lib calls
MaxCalls == 3

\* Path::exists
exists(f) == f.kind # "absent"

\* get_config_path: the first path that exists, else libraries.json
get_config_path(fs) ==
  IF \E p \in KbPaths : exists(fs[p])
  THEN CHOOSE p \in KbPaths : exists(fs[p]) /\ \A q \in KbPaths : exists(fs[q]) => p <= q
  ELSE 1

\* load_libraries_config: read_to_string, then serde_json::from_str
load_libraries_config(fs) ==
  LET f == fs[get_config_path(fs)]
  IN  IF f.kind \in {"absent", "unreadable"} THEN Err("Failed to read")
      ELSE IF f.kind = "unparsable" THEN Err("Failed to parse")
      ELSE Ok(f.config)

\* the LibrariesConfig of the closure given to unwrap_or_else
DefaultConfig ==
  LibrariesConfig(
    << <<"l","i","b","c",".","s","o",".","6">>, <<"l","i","b","m",".","s","o",".","6">>, <<"l","i","b","d","l",".","s","o",".","2">>, <<"l","i","b","p","t","h","r","e","a","d",".","s","o",".","0">>, <<"l","i","b","r","t",".","s","o",".","1">>,
       <<"l","i","b","u","t","i","l",".","s","o",".","1">>, <<"l","i","b","r","e","s","o","l","v",".","s","o",".","2">>, <<"l","d","-","l","i","n","u","x","-","x","8","6","-","6","4",".","s","o",".","2">>, <<"l","i","b","g","c","c","_","s",".","s","o",".","1">>,
       <<"l","i","b","s","t","d","c","+","+",".","s","o",".","6">> >>,
    {})

\* a variant of unwrap_or_else: the fallback is an empty LibrariesConfig
unwrap_or_else_empty(r) == IF r.ok THEN r.val ELSE LibrariesConfig(<<>>, {})

\* load_libraries_config().unwrap_or_else(|e| ...)
unwrap_or_else(r) == IF r.ok THEN r.val ELSE DefaultConfig

\* a variant of get_libraries_config: the file is loaded at every call
get_libraries_config_reloads(cell, log, fs) ==
  [ cell |-> Some(unwrap_or_else(load_libraries_config(fs))),
    log |-> Append(log, fs[get_config_path(fs)]) ]

\* get_libraries_config: LIBRARIES_CONFIG.get_or_init; the cell after the
\* call, and the log of what the loader found when it ran
get_libraries_config(cell, log, fs) ==
  IF cell.some
  THEN [cell |-> cell, log |-> log]
  ELSE [ cell |-> Some(unwrap_or_else(load_libraries_config(fs))),
         log |-> Append(log, fs[get_config_path(fs)]) ]

\* the two views
is_system_lib(config, lib_name) == lib_name \in Elems(config.system_libs)
get_pkg_for_lib(config, lib_name) == get(config.lib_to_pkg_map, lib_name)

Call(fn, lib, val) == [fn |-> fn, lib |-> lib, val |-> val]

\* a call of is_system_lib
IsSystemLib ==
  /\ calls < MaxCalls
  /\ \E lib \in KbLibs :
       LET c == get_libraries_config(LIBRARIES_CONFIG, load_log, files)
       IN  /\ LIBRARIES_CONFIG' = c.cell
           /\ load_log' = c.log
           /\ answer' = Some(Call("is_system_lib", lib, is_system_lib(c.cell.val, lib)))
  /\ calls' = calls + 1
  /\ UNCHANGED << main_vars, get_nix_shell_vars, first_run, control, files, decision >>

\* a call of get_pkg_for_lib
GetPkgForLib ==
  /\ calls < MaxCalls
  /\ \E lib \in KbLibs :
       LET c == get_libraries_config(LIBRARIES_CONFIG, load_log, files)
       IN  /\ LIBRARIES_CONFIG' = c.cell
           /\ load_log' = c.log
           /\ answer' = Some(Call("get_pkg_for_lib", lib, get_pkg_for_lib(c.cell.val, lib)))
  /\ calls' = calls + 1
  /\ UNCHANGED << main_vars, get_nix_shell_vars, first_run, control, files, decision >>

\* the environment creates, changes or deletes the file at one of the paths;
\* a decision the resolver took under the files as they were is forgotten
KbFileChange ==
  /\ \E p \in KbPaths : \E f \in KbStatesAt(p) :
       /\ f # files[p]
       /\ files' = [files EXCEPT ![p] = f]
  /\ decision' = None
  /\ UNCHANGED << main_vars, get_nix_shell_vars, first_run, control, LIBRARIES_CONFIG, load_log, calls, answer >>

\* the resolver decides on one line of an introspection output: whether it
\* goes into needed_libs, and what resolve_lib_via_locate gives for it
ResolverDecide ==
  /\ \E lib \in KbLibs, bundled \in {{}, {<<"f","o","o">>, <<"l","i","b","z",".","s","o",".","1">>}}, exact \in KbLocateOutputs :
       decision' = Some([ lib |-> lib, bundled |-> bundled,
                          wanted |-> wanted(lib, bundled),
                          r |-> resolve_lib_via_locate(lib, TRUE, exact, Ran(TRUE, <<>>)) ])
  /\ UNCHANGED << main_vars, get_nix_shell_vars, first_run, control, files, LIBRARIES_CONFIG, load_log,
                  calls, answer >>

InitConfig ==
  /\ files \in KbFiles
  /\ LIBRARIES_CONFIG = None
  /\ load_log = <<>>
  /\ calls = 0
  /\ answer = None
  /\ decision = None
  /\ first_run = None
  /\ control = None
  /\ filename = <<>>
  /\ skip_deps = FALSE
  /\ deb = {}
  /\ which_runs = TRUE
  /\ GetNixShellFresh("idle")
  /\ MainFresh("idle")
  /\ disk = {}

NextConfig ==
  \/ IsSystemLib
  \/ GetPkgForLib
  \/ KbFileChange
  \/ ResolverDecide

SpecConfig == InitConfig /\ [][NextConfig]_vars

(* ------------------ properties of the knowledge base ------------------- *)
\* the first run of the loader found nothing it could read and parse
LoadFailed == load_log # <<>> /\ load_log[1].kind # "parses"

\* what a call must have returned if it was answered from config c
AnsweredFrom(c) ==
  /\ answer.some
  /\ answer.val.val =
       IF answer.val.fn = "is_system_lib"
       THEN answer.val.lib \in Elems(c.system_libs)
       ELSE get(c.lib_to_pkg_map, answer.val.lib)

\* C12: every call of is_system_lib and get_pkg_for_lib returns; when the
\* loader found the file absent, unreadable or unparsable, the knowledge base
\* is the ten baseline system libraries with an empty map, and the call was
\* answered from it.
C12_LoadFailureFallsBack ==
  /\ calls > 0 => answer.some /\ LIBRARIES_CONFIG.some
  /\ LoadFailed =>
       /\ LIBRARIES_CONFIG.some
       /\ Len(LIBRARIES_CONFIG.val.system_libs) = 10
       /\ Elems(LIBRARIES_CONFIG.val.system_libs) = SYSTEM_LIBS
       /\ LIBRARIES_CONFIG.val.lib_to_pkg_map = {}
       /\ answer.some
       /\ answer.val.val =
            IF answer.val.fn = "is_system_lib"
            THEN answer.val.lib \in SYSTEM_LIBS
            ELSE None

\* the loader found a file that does not parse (while ../libraries.json
\* holds one that does), and is_system_lib("libc.so.6") returned true
C12_Witness ==
  /\ LoadFailed
  /\ load_log[1].kind = "unparsable"
  /\ files[2].kind = "parses"
  /\ answer = Some(Call("is_system_lib", <<"l","i","b","c",".","s","o",".","6">>, TRUE))

\* the value the first run of the loader gave
FirstValue == IF load_log[1].kind = "parses" THEN load_log[1].config ELSE DefaultConfig

\* C13: the loader runs at the first call and never again; what it gave then
\* is what LIBRARIES_CONFIG holds, and every call is answered from it,
\* whatever has become of the files since.
C13_LoadedOnce ==
  /\ Len(load_log) <= 1
  /\ calls = 0 => load_log = <<>> /\ LIBRARIES_CONFIG = None
  /\ calls > 0 =>
       /\ Len(load_log) = 1
       /\ LIBRARIES_CONFIG = Some(FirstValue)
       /\ AnsweredFrom(FirstValue)

\* after the first call the file was replaced by one that parses, and a later
\* call was answered otherwise than the file now there would have it
C13_Witness ==
  /\ calls >= 2
  /\ Len(load_log) = 1
  /\ files[get_config_path(files)].kind = "parses"
  /\ files[get_config_path(files)] # load_log[1]
  /\ answer.some
  /\ ~AnsweredFrom(files[get_config_path(files)].config)

\* the file get_config_path picks parses, and no other value is cached
FileInEffect ==
  /\ files[get_config_path(files)].kind = "parses"
  /\ LIBRARIES_CONFIG \in {None, Some(files[get_config_path(files)].config)}

\* C14 as claimed: with a file that is present and parses, the resolver
\* decides on a library by the file's system_libs and lib_to_pkg_map alone:
\* the library is kept exactly when the file does not list it as a system
\* library and maps it or it is not bundled; a library the file maps gets the
\* file's package without a lookup; a library the file does not map is not
\* answered from the compiled-in map.
C14_Original ==
  (decision.some /\ FileInEffect) =>
    LET d == decision.val
        c == files[get_config_path(files)].config
    IN  /\ d.wanted <=>
             /\ d.lib \notin Elems(c.system_libs)
             /\ (contains_key(c.lib_to_pkg_map, d.lib) \/ d.lib \notin d.bundled)
        /\ contains_key(c.lib_to_pkg_map, d.lib) =>
             d.r.pkg = get(c.lib_to_pkg_map, d.lib) /\ d.r.queries = <<>>
        /\ ~contains_key(c.lib_to_pkg_map, d.lib) => d.r.queries # <<>>

(* ----------------- get_nix_shell called a second time ------------------ *)
\* a variant of GetNixShellAgain: the sets and the vector of the resolve loop
\* outlive the call
GetNixShellAgain_keeps_state ==
  /\ pc = "done"
  /\ first_run = None
  /\ scan_result.some /\ scan_result.val.ok
  /\ first_run' = Some([ out |-> scan_result.val.val, log |-> resolve_log, files |-> visited ])
  /\ pc' = "start"
  /\ package_info' = PackageInfoDefault
  /\ result' = None
  /\ scan_result' = None
  /\ tmp_on_disk' = FALSE
  /\ tmp_files' = {}
  /\ data_tar' = None
  /\ bundled_files' = {}
  /\ visited' = {}
  /\ needed_libs' = {}
  /\ resolve_rest' = {}
  /\ resolve_log' = <<>>
  /\ UNCHANGED << resolved_packages, missing_libs >>
  /\ UNCHANGED << main_vars, world, files, LIBRARIES_CONFIG, load_log, calls, answer, decision, control >>

\* after a call that returned with the scan's Ok, the same process calls
\* get_nix_shell again, with the same arguments: every local of the two
\* functions is created anew; what the first call scanned, what the index
\* answered and what the scan returned are kept on record
GetNixShellAgain ==
  /\ pc = "done"
  /\ first_run = None
  /\ scan_result.some /\ scan_result.val.ok
  /\ first_run' = Some([ out |-> scan_result.val.val, log |-> resolve_log, files |-> visited ])
  /\ pc' = "start"
  /\ package_info' = PackageInfoDefault
  /\ result' = None
  /\ scan_result' = None
  /\ tmp_on_disk' = FALSE
  /\ tmp_files' = {}
  /\ data_tar' = None
  /\ bundled_files' = {}
  /\ visited' = {}
  /\ needed_libs' = {}
  /\ resolve_rest' = {}
  /\ resolved_packages' = {}
  /\ missing_libs' = <<>>
  /\ resolve_log' = <<>>
  /\ UNCHANGED << main_vars, world, files, LIBRARIES_CONFIG, load_log, calls, answer, decision, control >>

\* the payloads of the archives that are scanned twice
TwicePayloads ==
  { t \in Payloads :
      \A f \in t : /\ f.name \in { <<"a","p","p">>, <<"l","i","b","f","o","o",".","s","o",".","1">> }
                   /\ f.needed \in { Ran(TRUE, <<"f","o","o","\n","l","i","b","z",".","s","o",".","1","\n">>),
                                     Ran(TRUE, <<" ","l","i","b","f","f","m","p","e","g",".","s","o"," ","\n","\n","l","i","b","f","o","o",".","s","o",".","1","\n">>) } }

\* tar, unpacking in the second call the files it unpacked in the first
ScanTarSame ==
  /\ ScanTar
  /\ pc' = "walk" =>
       IF first_run.some
       THEN tmp_files' = first_run.val.files
       ELSE tmp_files' \ tmp_files \in TwicePayloads

\* one round of the resolve loop, the index answering in the second call as
\* it answered in the first
ScanResolveLibSame ==
  /\ ScanResolveLib
  /\ first_run.some =>
       \A lib \in DOMAIN resolve_log' :
         lib \in DOMAIN first_run.val.log =>
           resolve_log'[lib].queries = first_run.val.log[lib].queries

InitTwice ==
  /\ ConfigFresh
  /\ filename = <<"p","a","c","k","a","g","e",".","d","e","b">>
  /\ skip_deps = FALSE
  /\ deb \in DebMembers
  /\ which_runs = TRUE
  /\ GetNixShellFresh("start")
  /\ MainFresh("idle")
  /\ disk = {}

NextTwice ==
  \/ GetNixShellEnter
  \/ GetNixShellInfo
  \/ ScanTempdir
  \/ ScanCanonicalize
  \/ ScanAr
  \/ ScanReadDir
  \/ ScanTarSame
  \/ ScanWalkBundled
  \/ ScanFile
  \/ ScanWalkDone
  \/ ScanResolveLibSame
  \/ ScanFinish
  \/ GetNixShellAgain

SpecTwice == InitTwice /\ [][NextTwice]_vars

\* C15: when a second call scans the files the first call scanned and the
\* index answers as it did, the second scan_binary_and_resolve returns the
\* two lists the first returned.
C15_SecondRunSame ==
  (first_run.some /\ ScanOk) => scan_result.val.val = first_run.val.out

\* a second call has returned, the first having returned a package found in
\* the map, a package found by the index and a missing library
C15_Witness ==
  /\ first_run.some
  /\ ScanOk
  /\ Len(first_run.val.out[1]) >= 2
  /\ first_run.val.out[2] # <<>>

(* ------------- get_nix_shell reading the control data alone ------------ *)
\* the texts that follow "Architecture: " in the control data
ArchCodes ==
  { <<"a","m","d","6","4">>, <<"a","r","m","6","4">>, <<"r","i","s","c","v","6","4">>, <<"i","3","8","6">>, <<"a","r","m","h","f">>, <<"a","l","l">>, <<"A","M","D","6","4">>, <<"a","m","d","6","4"," ">>,
    <<" ","a","r","m","6","4">>, <<"a","r","m","6","4","e">>, <<"x","8","6","_","6","4","-","l","i","n","u","x">>, <<>> }

\* the lines of the control data before and after the Architecture field
ControlBefore == { <<>>, <<"P","a","c","k","a","g","e",":"," ","d","e","m","o","\n","V","e","r","s","i","o","n",":"," ","1",".","2","\n">> }
ControlAfter == { <<>>, <<"D","e","s","c","r","i","p","t","i","o","n",":"," ","a"," ","d","e","m","o","\n">>, <<"A","r","c","h","i","t","e","c","t","u","r","e","-","H","i","n","t",":"," ","a","r","m","6","4","\n">> }

\* what `dpkg --info` prints for these
ControlOutputs ==
  { Ran(TRUE, b \o <<"A","r","c","h","i","t","e","c","t","u","r","e",":"," ">> \o a \o <<"\n">> \o c) :
      a \in ArchCodes, b \in ControlBefore, c \in ControlAfter }

\* get_nix_shell, second part, `dpkg --info` giving one of ControlOutputs or
\* failing, and the fallback failing
GetNixShellControl ==
  GetNixShellInfoFrom(ControlOutputs \cup {Ran(FALSE, <<>>)}, {NotSpawned, Ran(FALSE, <<>>)})

InitInfo ==
  /\ ConfigFresh
  /\ filename \in Filenames
  /\ skip_deps = TRUE
  /\ deb \in DebMembers
  /\ which_runs \in BOOLEAN
  /\ GetNixShellFresh("start")
  /\ MainFresh("idle")
  /\ disk = {}

NextInfo ==
  \/ GetNixShellEnter
  \/ GetNixShellControl

SpecInfo == InitInfo /\ [][NextInfo]_vars

\* what the claim has the architecture be, for the text a after the key
NormalizedAs(a) ==
  LET code == trim(a)
  IN  IF code = <<"a","m","d","6","4">> THEN <<"x","8","6","_","6","4","-","l","i","n","u","x">>
      ELSE IF code = <<"a","r","m","6","4">> THEN <<"a","a","r","c","h","6","4","-","l","i","n","u","x">>
      ELSE code

\* C16: when get_nix_shell has read control data whose Architecture field
\* holds a code, the architecture of the package information is x86_64-linux
\* for amd64, aarch64-linux for arm64, and the code itself for any other.
C16_ArchNormalized ==
  (pc = "done" /\ control.some /\ result.some /\ result.val.ok) =>
    \A a \in ArchCodes, b \in ControlBefore, c \in ControlAfter :
      control.val = Ran(TRUE, b \o <<"A","r","c","h","i","t","e","c","t","u","r","e",":"," ">> \o a \o <<"\n">> \o c) =>
        result.val.val.arch = NormalizedAs(a)

\* get_nix_shell returned riscv64 for the code riscv64
C16_Witness ==
  /\ pc = "done" /\ control.some /\ result.some /\ result.val.ok
  /\ control.val = Ran(TRUE, <<"P","a","c","k","a","g","e",":"," ","d","e","m","o","\n","V","e","r","s","i","o","n",":"," ","1",".","2","\n","A","r","c","h","i","t","e","c","t","u","r","e",":"," ","r","i","s","c","v","6","4","\n">>)
  /\ result.val.val.arch = <<"r","i","s","c","v","6","4">>
  /\ result.val.val.name = <<"d","e","m","o">>
====
